---- MODULE Spec2Model ----
(***************************************************************************)
(* Model of the sandbox session reconciler of AI_sandbox:                  *)
(*   database/models.py, database/crud.py        the session record store  *)
(*   sandbox_manager/docker_client.py            the runtime client        *)
(*   sandbox_manager/service.py                  the reconciler and sweeps *)
(*   main.py                                     the periodic task         *)
(* Every store call and every runtime call is one atomic step of the call  *)
(* that makes it; the container runtime itself (docker) is the environment.*)
(***************************************************************************)
EXTENDS Integers, Sequences, FiniteSets, TLC

\* ---------------------------------------------------------------- bounds
\* Number of provision_and_execute_sandbox_session calls in a behaviour.
MaxCalls == 2
\* The same, for the specification with overlapping calls.
MaxConcCalls == 3
\* Rows in the table when the lookup of the anchor is checked on its own.
MaxRows == 3
\* Rows in the table when the sweeps are checked on their own.
MaxSweepRows == 2
\* Rows of a table the store functions are applied to on their own.
MaxStoreRows == 2
\* Fragments in an image name given to the interpreter selection.
MaxNameLen == 3
\* Characters in a code string given to the script write.
MaxCodeLen == 3

\* ------------------------------------------------------- optional values
\* Python's None / a present value.
None == <<>>
Some(x) == <<x>>
Val(o) == o[1]
\* Python truthiness of an Optional[str] / Optional[int-id] as the code tests it.
Truthy(o) == o # None

\* ------------------------------------------------------------ the inputs
Agents == {"A", "B"}
Procs == {1, 2}

\* database/models.py SandboxStatus
SandboxStatus == {"pending", "running", "success", "failed", "stopped", "regenerating"}

\* service.py line 66: the known non-running statuses.
KnownStopped == {"exited", "created", "dead", "paused", "restarting", "removing"}

\* ---------------------------------------------------------- the store
\* database/models.py: a row of table sandboxes as created by create_sandbox
\* (column defaults: status PENDING, is_active True, both timestamps now).
NewSandbox(id, llm_agent_id, base_image, now) ==
    [ id |-> id,
      container_id |-> None,
      status |-> "pending",
      created_at |-> now,
      last_updated_at |-> now,
      llm_agent_id |-> llm_agent_id,
      execution_result |-> None,
      error_message |-> None,
      is_active |-> TRUE,
      base_image |-> base_image,
      exit_code |-> None ]

\* Index of the row with this id in the table, 0 when there is none.
RowIndex(d, id) ==
    IF \E i \in 1..Len(d) : d[i].id = id
    THEN CHOOSE i \in 1..Len(d) : d[i].id = id
    ELSE 0

\* crud.get_sandbox
get_sandbox(d, id) ==
    IF RowIndex(d, id) = 0 THEN None ELSE Some(d[RowIndex(d, id)])

\* models.py line 26: onupdate=datetime.now fires when the flush emits an
\* UPDATE, that is when some column of the row has a net change.
Touch(old, new, now) ==
    IF new = old THEN old ELSE [new EXCEPT !.last_updated_at = now]

\* crud.update_sandbox_status lines 43-51 on the row found.
ApplyStatusUnguardedContainer(row, status, container_id, execution_result, error_message, exit_code) ==
    [row EXCEPT
        !.status = status,
        !.container_id = container_id,
        !.execution_result = IF Truthy(execution_result) THEN execution_result ELSE @,
        !.error_message = IF Truthy(error_message) THEN error_message ELSE @,
        !.exit_code = IF exit_code # None THEN exit_code ELSE @]
ApplyStatusTruthyExitCode(row, status, container_id, execution_result, error_message, exit_code) ==
    [row EXCEPT
        !.status = status,
        !.container_id = IF Truthy(container_id) THEN container_id ELSE @,
        !.execution_result = IF Truthy(execution_result) THEN execution_result ELSE @,
        !.error_message = IF Truthy(error_message) THEN error_message ELSE @,
        !.exit_code = IF exit_code # None /\ exit_code # Some(0) THEN exit_code ELSE @]
ApplyStatus(row, status, container_id, execution_result, error_message, exit_code) ==
    [row EXCEPT
        !.status = status,
        !.container_id = IF Truthy(container_id) THEN container_id ELSE @,
        !.execution_result = IF Truthy(execution_result) THEN execution_result ELSE @,
        !.error_message = IF Truthy(error_message) THEN error_message ELSE @,
        !.exit_code = IF exit_code # None THEN exit_code ELSE @]

\* crud.update_sandbox_status: the table after the call.
update_sandbox_status(d, now, id, status, container_id, execution_result, error_message, exit_code) ==
    LET i == RowIndex(d, id) IN
    IF i = 0 THEN d
    ELSE [d EXCEPT ![i] =
            Touch(d[i],
                  ApplyStatus(d[i], status, container_id, execution_result,
                              error_message, exit_code),
                  now)]

\* crud.deactivate_sandbox: the table after the call.
deactivate_sandbox_unset(d, now, id) == d
deactivate_sandbox(d, now, id) ==
    LET i == RowIndex(d, id) IN
    IF i = 0 THEN d
    ELSE [d EXCEPT ![i] = Touch(d[i], [d[i] EXCEPT !.is_active = FALSE], now)]

\* crud.create_sandbox: the table after the call.
create_sandbox(d, now, id, llm_agent_id, base_image) ==
    Append(d, NewSandbox(id, llm_agent_id, base_image, now))

\* crud.delete_sandbox: the table after the call.
delete_sandbox_keeps(d, id) == d
delete_sandbox(d, id) ==
    SelectSeq(d, LAMBDA r : r.id # id)

\* crud.get_all_sandboxes
get_all_sandboxes(d) == d

\* crud.get_active_sandboxes
get_active_sandboxes_with_failed(d) ==
    SelectSeq(d, LAMBDA r : r.is_active /\ r.status \in {"pending", "running", "failed"})
get_active_sandboxes(d) ==
    SelectSeq(d, LAMBDA r : r.is_active /\ r.status \in {"pending", "running", "regenerating"})

\* crud.get_broken_sandboxes
get_broken_sandboxes(d) ==
    SelectSeq(d, LAMBDA r : r.status = "failed" /\ r.is_active)

\* ------------------------------------------------- the anchor (lookup)
\* list.sort(key=last_updated_at, reverse=True): a stable sort, by insertion.
RECURSIVE InsertDesc(_, _)
InsertDesc(s, r) ==
    IF s = <<>> THEN <<r>>
    ELSE IF r.last_updated_at > Head(s).last_updated_at
         THEN <<r>> \o s
         ELSE <<Head(s)>> \o InsertDesc(Tail(s), r)

RECURSIVE InsertAsc(_, _)
InsertAsc(s, r) ==
    IF s = <<>> THEN <<r>>
    ELSE IF r.last_updated_at < Head(s).last_updated_at
         THEN <<r>> \o s
         ELSE <<Head(s)>> \o InsertAsc(Tail(s), r)

RECURSIVE SortAsc(_)
SortAsc(s) ==
    IF s = <<>> THEN <<>>
    ELSE InsertAsc(SortAsc(SubSeq(s, 1, Len(s) - 1)), s[Len(s)])

RECURSIVE SortByUpdatedDesc(_)
SortByUpdatedDesc(s) ==
    IF s = <<>> THEN <<>>
    ELSE InsertDesc(SortByUpdatedDesc(SubSeq(s, 1, Len(s) - 1)), s[Len(s)])

\* service.py lines 37-40: the rows of this agent and image.
AgentSandboxes(d, llm_agent_id, base_image) ==
    SelectSeq(get_all_sandboxes(d),
              LAMBDA sb : sb.llm_agent_id = llm_agent_id /\ sb.base_image = base_image)

\* service.py lines 42-44: the anchor, None when there is no such row.
AnchorOldest(d, llm_agent_id, base_image) ==
    LET all == AgentSandboxes(d, llm_agent_id, base_image) IN
    IF all = <<>> THEN None ELSE Some(Head(SortAsc(all)))
Anchor(d, llm_agent_id, base_image) ==
    LET all == AgentSandboxes(d, llm_agent_id, base_image) IN
    IF all = <<>> THEN None ELSE Some(Head(SortByUpdatedDesc(all)))

\* service.py line 30: the deterministic container name.
ContainerNamePerImage(llm_agent_id, base_image) == <<"sandbox", llm_agent_id, base_image>>
ContainerName(llm_agent_id, base_image) == <<"sandbox", llm_agent_id>>

\* config.py line 11: SANDBOX_BASE_IMAGE, the default of service.py line 28.
DefaultBaseImage == "python:3.10-slim-bookworm"

\* ------------------------------------------------------------ the runtime
\* docker_client.get_container_status: None for an unknown container and for
\* an API error (fault), the status otherwise.
get_container_status(cs, container_id, fault) ==
    IF fault \/ container_id \notin DOMAIN cs THEN None
    ELSE Some(cs[container_id].status)

\* docker_client.find_container_by_name: the id of the container of that name.
find_container_by_name_any(cs, name) ==
    IF DOMAIN cs # {} THEN Some(CHOOSE c \in DOMAIN cs : TRUE) ELSE None
find_container_by_name(cs, name) ==
    IF \E c \in DOMAIN cs : cs[c].name = name
    THEN Some(CHOOSE c \in DOMAIN cs : cs[c].name = name)
    ELSE None

\* docker_client.stop_and_remove_container: the runtime after the call. NotFound
\* and APIError are both swallowed; on an API error the container is left.
stop_and_remove_container(cs, container_id, fault) ==
    IF fault \/ container_id \notin DOMAIN cs THEN cs
    ELSE [c \in DOMAIN cs \ {container_id} |-> cs[c]]

\* docker_client.pull_image: True when pulled, False on ImageNotFound and on APIError.
PullOutcomes == {"pulled", "not_found", "api_error"}
pull_image(outcome) == outcome = "pulled"

\* docker_client.pull_image lines 19-30 as a call: both except clauses return,
\* so the call never raises; value is what it returns.
pull_image_call(outcome) == [raised |-> FALSE, value |-> pull_image(outcome)]

\* An image name as the fragments it is made of: the words the selection looks
\* for and other text.
NameFragments == {"python", "node", "alpine", "-slim"}
Contains(base_image, word) == \E i \in 1..Len(base_image) : base_image[i] = word

\* docker_client.exec_code_in_container lines 69-84: the interpreter and the
\* file extension chosen from the image name.
select_interpreter_node_first(base_image) ==
    IF Contains(base_image, "node")
    THEN [interpreter |-> "node", file_extension |-> ".js"]
    ELSE IF Contains(base_image, "python")
    THEN [interpreter |-> "python", file_extension |-> ".py"]
    ELSE [interpreter |-> "bash", file_extension |-> ".sh"]
select_interpreter(base_image) ==
    IF Contains(base_image, "python")
    THEN [interpreter |-> "python", file_extension |-> ".py"]
    ELSE IF Contains(base_image, "node")
    THEN [interpreter |-> "node", file_extension |-> ".js"]
    ELSE [interpreter |-> "bash", file_extension |-> ".sh"]

\* ---- the script write of exec_code_in_container (docker_client.py lines 90-106)
\* A string is the sequence of its characters; "printf", "%s", "-c", "bash",
\* ">" and "F" (the script path) stand for text without quotes, blanks,
\* backslashes, dollar signs or backticks; "bt" is the backtick.
CodeChars == {"a", " ", "'", "\"", "\\", "$", "bt"}

\* Line 93: every single quote of the code is replaced by the four
\* characters quote, backslash, quote, quote.
RECURSIVE escape_single_quotes(_)
escape_single_quotes(code_string) ==
    IF code_string = <<>> THEN <<>>
    ELSE (IF Head(code_string) = "'" THEN <<"'", "\\", "'", "'">> ELSE <<Head(code_string)>>)
         \o escape_single_quotes(Tail(code_string))

\* Line 94: printf '%s' '<escaped>' > <script path>.
write_command(code_string) ==
    <<"printf", " ", "'", "%s", "'", " ", "'">> \o escape_single_quotes(code_string)
        \o <<"'", " ", ">", " ", "F">>

\* Line 98: the command string given to exec_run, bash -c "<write_command>".
write_cmd(code_string) ==
    <<"bash", " ", "-c", " ", "\"">> \o write_command(code_string) \o <<"\"">>

\* Splitting a string into words: shlex.split (mode "shlex", which the
\* docker SDK applies to a command given as a string) and the word parsing
\* of bash (mode "bash"). st is the quoting state: "u" unquoted, "s" in single
\* quotes, "d" in double quotes, "ue" and "de" after a backslash. Both end a
\* word at an unquoted blank, take everything in single quotes literally and
\* the character after an unquoted backslash literally; in double quotes a
\* backslash is dropped only before a character it can escape. bash expands
\* $ and the backtick outside single quotes (kind "unmodelled") and reads an unquoted >
\* as the redirection operator (the word <<"redirect">>). A quote or backslash
\* left open at the end is an error.
RECURSIVE Lex(_, _, _, _, _, _, _)
Lex(mode, s, i, st, tok, started, toks) ==
    LET flushed == IF started THEN Append(toks, tok) ELSE toks
        escapable == IF mode = "shlex" THEN {"\"", "\\"} ELSE {"\"", "\\", "$", "bt"}
    IN
    IF i > Len(s)
    THEN IF st = "u" THEN [kind |-> "ok", tokens |-> flushed]
         ELSE [kind |-> "error", tokens |-> <<>>]
    ELSE LET c == s[i] IN
      IF st = "u" THEN
           IF c = " " THEN Lex(mode, s, i + 1, "u", <<>>, FALSE, flushed)
           ELSE IF c = "'" THEN Lex(mode, s, i + 1, "s", tok, TRUE, toks)
           ELSE IF c = "\"" THEN Lex(mode, s, i + 1, "d", tok, TRUE, toks)
           ELSE IF c = "\\" THEN Lex(mode, s, i + 1, "ue", tok, TRUE, toks)
           ELSE IF mode = "bash" /\ c \in {"$", "bt"} THEN [kind |-> "unmodelled", tokens |-> <<>>]
           ELSE IF mode = "bash" /\ c = ">"
                THEN Lex(mode, s, i + 1, "u", <<>>, FALSE, Append(flushed, <<"redirect">>))
           ELSE Lex(mode, s, i + 1, "u", Append(tok, c), TRUE, toks)
      ELSE IF st = "ue" THEN Lex(mode, s, i + 1, "u", Append(tok, c), TRUE, toks)
      ELSE IF st = "s" THEN
           IF c = "'" THEN Lex(mode, s, i + 1, "u", tok, TRUE, toks)
           ELSE Lex(mode, s, i + 1, "s", Append(tok, c), TRUE, toks)
      ELSE IF st = "d" THEN
           IF c = "\"" THEN Lex(mode, s, i + 1, "u", tok, TRUE, toks)
           ELSE IF c = "\\" THEN Lex(mode, s, i + 1, "de", tok, TRUE, toks)
           ELSE IF mode = "bash" /\ c \in {"$", "bt"} THEN [kind |-> "unmodelled", tokens |-> <<>>]
           ELSE Lex(mode, s, i + 1, "d", Append(tok, c), TRUE, toks)
      ELSE Lex(mode, s, i + 1, "d",
               IF c \in escapable THEN Append(tok, c) ELSE tok \o <<"\\", c>>,
               TRUE, toks)

shlex_split(s) == Lex("shlex", s, 1, "u", <<>>, FALSE, <<>>)
bash_words(s) == Lex("bash", s, 1, "u", <<>>, FALSE, <<>>)

RECURSIVE Concat(_)
Concat(words) == IF words = <<>> THEN <<>> ELSE Head(words) \o Concat(Tail(words))

\* bash runs the words of a script: printf '%s' with its arguments written
\* one after the other into the file the output is redirected to. A script of
\* another shape is not modelled.
run_script(words) ==
    LET n == Len(words) IN
    IF /\ n >= 4
       /\ words[1] = <<"printf">>
       /\ words[2] = <<"%s">>
       /\ words[n - 1] = <<"redirect">>
       /\ words[n] = <<"F">>
       /\ \A k \in 3..(n - 2) : words[k] # <<"redirect">>
    THEN [kind |-> "written", content |-> Concat(SubSeq(words, 3, n - 2))]
    ELSE [kind |-> "unmodelled", content |-> <<>>]

\* Lines 93-106: what the write leaves in the script file. "raised": exec_run
\* raises (shlex.split fails with ValueError, caught at line 151); "failed":
\* bash reports a syntax error and the write returns a nonzero exit code.
write_script(code_string) ==
    LET argv == shlex_split(write_cmd(code_string)) IN
    IF argv.kind = "error" THEN [kind |-> "raised", content |-> <<>>]
    ELSE LET words == bash_words(argv.tokens[3]) IN
         IF words.kind = "error" THEN [kind |-> "failed", content |-> <<>>]
         ELSE IF words.kind = "unmodelled" THEN [kind |-> "unmodelled", content |-> <<>>]
         ELSE run_script(words.tokens)

\* service.py line 70 calls DockerClient.start_existing_container, which
\* docker_client.py does not define: the call raises AttributeError before it
\* reaches the runtime (sent: whether a start request reached the runtime).
start_existing_container_restarts(cs, container_id) ==
    [raised |-> FALSE, sent |-> TRUE,
     containers |-> [cs EXCEPT ![container_id].status = "running"]]
start_existing_container(cs, container_id) ==
    [raised |-> TRUE, sent |-> FALSE, containers |-> cs]

\* docker_client.start_container (containers.run, detached): "started" gives a
\* running container; "api_error" leaves none; "created_only" leaves the
\* container created but not started and raises; a name already in use raises.
StartOutcomes == {"started", "api_error", "created_only"}
start_container(cs, id, image, name, outcome) ==
    IF outcome = "api_error" \/ (\E c \in DOMAIN cs : cs[c].name = name)
    THEN [raised |-> TRUE, containers |-> cs, id |-> None]
    ELSE LET st == IF outcome = "started" THEN "running" ELSE "created"
             ncs == [c \in DOMAIN cs \cup {id} |->
                        IF c = id THEN [name |-> name, image |-> image, status |-> st]
                        ELSE cs[c]]
         IN [raised |-> outcome # "started", containers |-> ncs,
             id |-> IF outcome = "started" THEN Some(id) ELSE None]

\* What the submitted code can do in a running container: stdout, stderr, exit code.
ExecOutcomes ==
    { [output |-> Some("out"), error |-> None, exit_code |-> Some(0)],
      [output |-> None, error |-> None, exit_code |-> Some(7)],
      [output |-> Some("out"), error |-> Some("stderr"), exit_code |-> Some(0)],
      [output |-> None, error |-> Some("stderr"), exit_code |-> Some(7)] }

\* What the runtime says of a container when a call reaches it.
ContainerState(cs, container_id) ==
    IF container_id \notin DOMAIN cs THEN "gone"
    ELSE IF cs[container_id].status = "running" THEN "running" ELSE "stopped"

\* How the write of the script (docker_client.py lines 97-106) can end: done, or
\* failed (nonzero exit) with or without a file left behind.
WriteOutcomes == {"written", "failed_partial", "failed_nothing"}

\* exec_code_in_container with a finally block whose failure replaces what
\* is returned.
exec_code_in_container_cleanup_raises(at_write, at_run, at_cleanup, write, outcome) ==
    IF at_write = "running" /\ at_cleanup # "running"
    THEN [result |-> [output |-> None, error |-> Some("cleanup failed"), exit_code |-> Some(-2)],
          script_left |-> TRUE]
    ELSE [result |-> outcome, script_left |-> FALSE]

\* docker_client.exec_code_in_container, call by call: containers.get and the
\* write (lines 87-106) see the container in state at_write, the run (lines
\* 123-141) in state at_run, the cleanup in the finally block (lines 155-164)
\* in state at_cleanup. containers.get raises NotFound for a container that
\* is gone and exec_run raises APIError in one that does not run; the cleanup
\* swallows both, and then the script stays in the shared directory.
\* Returns the (output, error, exit_code) and whether the script is left.
exec_code_in_container_observed(at_write, at_run, at_cleanup, write, outcome) ==
    IF at_write = "gone"
    THEN [result |-> [output |-> None, error |-> Some("not found"), exit_code |-> Some(-1)],
          script_left |-> FALSE]
    ELSE IF at_write # "running"
    THEN [result |-> [output |-> None, error |-> Some("api error"), exit_code |-> Some(-1)],
          script_left |-> FALSE]
    ELSE IF write # "written"
    THEN [result |-> [output |-> None, error |-> Some("write failed"), exit_code |-> Some(1)],
          script_left |-> (write = "failed_partial" /\ at_cleanup # "running")]
    ELSE IF at_run = "gone"
    THEN [result |-> [output |-> None, error |-> Some("not found"), exit_code |-> Some(-1)],
          script_left |-> at_cleanup # "running"]
    ELSE IF at_run # "running"
    THEN [result |-> [output |-> None, error |-> Some("api error"), exit_code |-> Some(-1)],
          script_left |-> at_cleanup # "running"]
    ELSE [result |-> outcome, script_left |-> at_cleanup # "running"]

\* docker_client.exec_code_in_container against a container that does not
\* change during the call and a write that succeeds: the (output, error,
\* exit_code) returned. Exit code -1 for a container unknown or not running.
exec_code_in_container(cs, container_id, outcome) ==
    LET st == ContainerState(cs, container_id)
    IN exec_code_in_container_observed(st, st, st, "written", outcome).result

\* ------------------------------------------------------------- the state
VARIABLES
    db,          \* table sandboxes, rows in insertion order
    clock,       \* datetime.now of the last write
    nextId,      \* the next uuid4 of create_sandbox
    containers,  \* the runtime: container id -> [name, image, status]
    nextCid,     \* the next container id the runtime assigns
    calls,       \* provision_and_execute_sandbox_session calls started
    proc,        \* per request task: position and locals of its call
    sweeper      \* main.run_periodic_monitor_and_cleanup: position and loop list

vars == <<db, clock, nextId, containers, nextCid, calls, proc, sweeper>>

\* Locals of provision_and_execute_sandbox_session (service.py lines 22-216).
\* anchor, ops, hist, executed_in and created record what the call did, and
\* script_left whether its exec_code_in_container left its script behind.
IdleProc ==
    [ pc |-> "idle",
      llm_agent_id |-> "A",
      base_image |-> DefaultBaseImage,
      sandbox_entry |-> None,
      current_container_id |-> None,
      docker_container_status |-> None,
      existing |-> None,
      result |-> None,
      post_exec_container_status |-> None,
      anchor |-> None,
      ops |-> <<>>,
      hist |-> <<>>,
      executed_in |-> None,
      created |-> None,
      script_left |-> FALSE ]

Init ==
    /\ db = <<>>
    /\ clock = 0
    /\ nextId = 1
    /\ containers = <<>>
    /\ nextCid = 1
    /\ calls = 0
    /\ proc = [p \in Procs |-> IdleProc]
    /\ sweeper = [pc |-> "sleep", queue |-> <<>>]

\* The time a write that changed the table is stamped with.
Now == clock + 1
Tick(d) == IF d # db THEN clock + 1 ELSE clock

Returned(p) == proc[p].pc = "done"
Idle(p) == proc[p].pc = "idle"
Log(p, op) == Append(proc[p].ops, op)

\* ------------------------------------------- provision_and_execute_sandbox_session
\* service.py lines 22-32: a request enters; base_image None is the default image.
Start(p, llm_agent_id, image) ==
    /\ Idle(p)
    /\ proc' = [proc EXCEPT ![p] =
            [IdleProc EXCEPT
                !.pc = "lookup",
                !.llm_agent_id = llm_agent_id,
                !.base_image = IF image = None THEN DefaultBaseImage ELSE Val(image)]]
    /\ calls' = calls + 1
    /\ UNCHANGED <<db, clock, nextId, containers, nextCid, sweeper>>

\* service.py lines 37-46: get_all_sandboxes, filter, sort, take the newest.
Lookup(p) ==
    /\ proc[p].pc = "lookup"
    /\ LET a == Anchor(db, proc[p].llm_agent_id, proc[p].base_image)
           cid == IF a # None /\ Truthy(Val(a).container_id)
                  THEN Val(a).container_id ELSE None
       IN proc' = [proc EXCEPT ![p] =
            [@ EXCEPT
                !.pc = IF cid # None THEN "probe" ELSE "find",
                !.sandbox_entry = a,
                !.anchor = a,
                !.current_container_id = cid,
                !.ops = Log(p, "get_all_sandboxes")]]
    /\ UNCHANGED <<db, clock, nextId, containers, nextCid, calls, sweeper>>

\* service.py lines 51, 66, 91: the branch taken on the probed status.
VerifyBranchNeverReuse(st) ==
    IF st # None /\ Val(st) \in KnownStopped THEN "restart" ELSE "deactivate"
VerifyBranchNoneReuses(st) ==
    IF st = Some("running") \/ st = None THEN "reuse"
    ELSE IF Val(st) \in KnownStopped THEN "restart"
    ELSE "deactivate"
VerifyBranchTrustsStored(st) ==
    IF st # None /\ Val(st) \in KnownStopped THEN "restart" ELSE "reuse"
VerifyBranch(st) ==
    IF st = Some("running") THEN "reuse"
    ELSE IF st # None /\ Val(st) \in KnownStopped THEN "restart"
    ELSE "deactivate"

\* service.py lines 49-51, 66, 91: probe the anchor's container and branch.
Probe(p, fault) ==
    /\ proc[p].pc = "probe"
    /\
         LET st == get_container_status(containers, Val(proc[p].current_container_id), fault)
         IN proc' = [proc EXCEPT ![p] =
              [@ EXCEPT
                  !.pc = VerifyBranch(st),
                  !.docker_container_status = st,
                  !.ops = Log(p, "get_container_status")]]
    /\ UNCHANGED <<db, clock, nextId, containers, nextCid, calls, sweeper>>

\* service.py lines 52-64: the container runs; refresh the row to RUNNING.
Reuse(p) ==
    /\ proc[p].pc = "reuse"
    /\ LET e == Val(proc[p].sandbox_entry)
           d == update_sandbox_status(db, Now, e.id, "running",
                    proc[p].current_container_id, None, None, Some(0))
           updated_entry == get_sandbox(d, e.id)
       IN /\ db' = d
          /\ clock' = Tick(d)
          /\ proc' = [proc EXCEPT ![p] =
               [@ EXCEPT
                   !.pc = "exec",
                   !.sandbox_entry = IF updated_entry # None THEN updated_entry ELSE @,
                   !.hist = IF updated_entry # None THEN Append(@, "running") ELSE @,
                   !.ops = Log(p, "update_running")]]
    /\ UNCHANGED <<nextId, containers, nextCid, calls, sweeper>>

\* service.py lines 66-89: the container is known but stopped; try to restart it,
\* and on an exception deactivate the anchor and go on to provisioning.
Restart(p) ==
    /\ proc[p].pc = "restart"
    /\ LET e == Val(proc[p].sandbox_entry)
           r == start_existing_container(containers, Val(proc[p].current_container_id))
           d == IF r.raised
                THEN deactivate_sandbox(db, Now, e.id)
                ELSE update_sandbox_status(db, Now, e.id, "running",
                        proc[p].current_container_id, None, None, Some(0))
           updated_entry == get_sandbox(d, e.id)
       IN /\ db' = d
          /\ clock' = Tick(d)
          /\ containers' = r.containers
          /\ proc' = [proc EXCEPT ![p] =
               IF r.raised
               THEN [@ EXCEPT
                       !.pc = "find",
                       !.sandbox_entry = None,
                       !.current_container_id = None,
                       !.ops = Log(p, "start_existing_container")
                                  \o (IF r.sent THEN <<"runtime_start">> ELSE <<>>)
                                  \o <<"deactivate_sandbox">>]
               ELSE [@ EXCEPT
                       !.pc = "exec",
                       !.sandbox_entry = IF updated_entry # None THEN updated_entry ELSE @,
                       !.hist = IF updated_entry # None THEN Append(@, "running") ELSE @,
                       !.ops = Log(p, "start_existing_container")
                                  \o (IF r.sent THEN <<"runtime_start">> ELSE <<>>)
                                  \o <<"update_running">>]]
    /\ UNCHANGED <<nextId, nextCid, calls, sweeper>>

\* service.py lines 91-94: unknown container or status; deactivate the anchor.
Deactivate(p) ==
    /\ proc[p].pc = "deactivate"
    /\ LET d == deactivate_sandbox(db, Now, Val(proc[p].sandbox_entry).id)
       IN /\ db' = d
          /\ clock' = Tick(d)
    /\ proc' = [proc EXCEPT ![p] =
         [@ EXCEPT !.pc = "remove_stale", !.ops = Log(p, "deactivate_sandbox")]]
    /\ UNCHANGED <<nextId, containers, nextCid, calls, sweeper>>

\* service.py lines 95-102: best-effort removal of the anchor's container.
RemoveStale(p, fault) ==
    /\ proc[p].pc = "remove_stale"
    /\
         containers' = stop_and_remove_container(containers,
                          Val(proc[p].current_container_id), fault)
    /\ proc' = [proc EXCEPT ![p] =
         [@ EXCEPT
             !.pc = "find",
             !.sandbox_entry = None,
             !.current_container_id = None,
             !.ops = Log(p, "stop_and_remove_container")]]
    /\ UNCHANGED <<db, clock, nextId, nextCid, calls, sweeper>>

\* service.py lines 105-110: provisioning starts; look for a container that
\* already has the name. An API error of containers.get is not caught here.
Find(p, fault) ==
    /\ proc[p].pc = "find"
    /\
         LET found == find_container_by_name(containers,
                         ContainerName(proc[p].llm_agent_id, proc[p].base_image))
         IN proc' = [proc EXCEPT ![p] =
              [@ EXCEPT
                  !.pc = IF fault THEN "raised"
                         ELSE IF found # None THEN "remove_conflict" ELSE "pull",
                  !.existing = IF fault THEN None ELSE found,
                  !.ops = Log(p, "find_container_by_name")]]
    /\ UNCHANGED <<db, clock, nextId, containers, nextCid, calls, sweeper>>

\* service.py lines 110-115: stop and remove the container that has the name.
RemoveConflict(p, fault) ==
    /\ proc[p].pc = "remove_conflict"
    /\
         containers' = stop_and_remove_container(containers, Val(proc[p].existing), fault)
    /\ proc' = [proc EXCEPT ![p] =
         [@ EXCEPT !.pc = "pull", !.ops = Log(p, "stop_and_remove_container")]]
    /\ UNCHANGED <<db, clock, nextId, nextCid, calls, sweeper>>

\* service.py lines 117-118: pull the image; ValueError when pull_image is False.
PullAfterCreate(p, outcome) ==
    /\ proc[p].pc = "pull"
    /\ db' = create_sandbox(db, Now, nextId, proc[p].llm_agent_id, proc[p].base_image)
    /\ clock' = Now
    /\ nextId' = nextId + 1
    /\ proc' = [proc EXCEPT ![p] =
         [@ EXCEPT
             !.pc = IF pull_image(outcome) THEN "start" ELSE "raised",
             !.sandbox_entry = get_sandbox(db', nextId),
             !.created = Some(nextId),
             !.hist = Append(@, "pending"),
             !.ops = Log(p, "create_sandbox") \o <<"pull_image">>]]
    /\ UNCHANGED <<containers, nextCid, calls, sweeper>>
Pull(p, outcome) ==
    /\ proc[p].pc = "pull"
    /\
         proc' = [proc EXCEPT ![p] =
              [@ EXCEPT
                  !.pc = IF pull_image(outcome) THEN "create" ELSE "raised",
                  !.ops = Log(p, "pull_image")]]
    /\ UNCHANGED <<db, clock, nextId, containers, nextCid, calls, sweeper>>

\* service.py lines 121-128: create the row of the new session (PENDING).
Create(p) ==
    /\ proc[p].pc = "create"
    /\ db' = create_sandbox(db, Now, nextId, proc[p].llm_agent_id, proc[p].base_image)
    /\ clock' = Now
    /\ nextId' = nextId + 1
    /\ proc' = [proc EXCEPT ![p] =
         [@ EXCEPT
             !.pc = "start",
             !.sandbox_entry = get_sandbox(db', nextId),
             !.created = Some(nextId),
             !.hist = Append(@, "pending"),
             !.ops = Log(p, "create_sandbox")]]
    /\ UNCHANGED <<containers, nextCid, calls, sweeper>>

\* service.py lines 137-145: start the container under the deterministic name.
StartContainer(p, outcome) ==
    /\ proc[p].pc = "start"
    /\
         LET r == start_container(containers, nextCid, proc[p].base_image,
                     ContainerName(proc[p].llm_agent_id, proc[p].base_image), outcome)
         IN /\ containers' = r.containers
            /\ nextCid' = IF r.containers # containers THEN nextCid + 1 ELSE nextCid
            /\ proc' = [proc EXCEPT ![p] =
                 [@ EXCEPT
                     !.pc = IF r.raised THEN "mark_failed" ELSE "set_running",
                     !.current_container_id = r.id,
                     !.ops = Log(p, "start_container")]]
    /\ UNCHANGED <<db, clock, nextId, calls, sweeper>>

\* service.py lines 146-156: record the container id, status RUNNING; a row that
\* is gone makes update_sandbox_status return None, which raises into line 158.
SetRunning(p) ==
    /\ proc[p].pc = "set_running"
    /\ LET e == Val(proc[p].sandbox_entry)
           d == update_sandbox_status(db, Now, e.id, "running",
                    proc[p].current_container_id, Some("Sandbox session started."),
                    None, Some(0))
           updated_entry == get_sandbox(d, e.id)
       IN /\ db' = d
          /\ clock' = Tick(d)
          /\ proc' = [proc EXCEPT ![p] =
               [@ EXCEPT
                   !.pc = IF updated_entry = None THEN "mark_failed" ELSE "exec",
                   !.sandbox_entry = IF updated_entry # None THEN updated_entry ELSE @,
                   !.hist = IF updated_entry # None THEN Append(@, "running") ELSE @,
                   !.ops = Log(p, "update_running")]]
    /\ UNCHANGED <<nextId, containers, nextCid, calls, sweeper>>

\* service.py lines 158-166: provisioning failed; mark the row FAILED and re-raise.
MarkFailedRetries(p) ==
    /\ proc[p].pc = "mark_failed"
    /\ proc' = [proc EXCEPT ![p] = [@ EXCEPT !.pc = "start"]]
    /\ UNCHANGED <<db, clock, nextId, containers, nextCid, calls, sweeper>>
MarkFailed(p) ==
    /\ proc[p].pc = "mark_failed"
    /\ LET e == Val(proc[p].sandbox_entry)
           d == update_sandbox_status(db, Now, e.id, "failed", None, None,
                    Some("Provisioning error"), None)
       IN /\ db' = d
          /\ clock' = Tick(d)
          /\ proc' = [proc EXCEPT ![p] =
               [@ EXCEPT
                   !.pc = "raised",
                   !.hist = IF get_sandbox(d, e.id) # None THEN Append(@, "failed") ELSE @,
                   !.ops = Log(p, "update_failed")]]
    /\ UNCHANGED <<nextId, containers, nextCid, calls, sweeper>>

\* service.py lines 169-178: run the code in the resolved container.
Exec(p, outcome) ==
    /\ proc[p].pc = "exec"
    /\
         proc' = [proc EXCEPT ![p] =
              [@ EXCEPT
                  !.pc = "post_probe",
                  !.result = Some(exec_code_in_container(containers,
                                Val(proc[p].current_container_id), outcome)),
                  !.executed_in = proc[p].current_container_id,
                  !.ops = Log(p, "exec_code_in_container")]]
    /\ UNCHANGED <<db, clock, nextId, containers, nextCid, calls, sweeper>>

\* service.py lines 173-178 with code that never terminates: the script is
\* written and exec_run (docker_client.py lines 123-130, no timeout: line 129)
\* blocks for as long as the process runs in the container. The timeout the
\* service passes (line 177) is not used by exec_code_in_container, and no
\* step of the call follows.
ExecHangs(p) ==
    /\ proc[p].pc = "exec"
    /\ ContainerState(containers, Val(proc[p].current_container_id)) = "running"
    /\ proc' = [proc EXCEPT ![p] =
         [@ EXCEPT
             !.pc = "exec_run",
             !.executed_in = proc[p].current_container_id,
             !.ops = Log(p, "exec_code_in_container")]]
    /\ UNCHANGED <<db, clock, nextId, containers, nextCid, calls, sweeper>>

\* A container stays as it is, stops or disappears; it does not come back.
NotBefore(st1, st2) ==
    \/ st1 = st2
    \/ st1 = "running"
    \/ st2 = "gone"

\* service.py lines 169-178 with the container stopping or disappearing while
\* exec_code_in_container is at work: the runtime is left as the cleanup saw it.
ExecObserved(p, outcome, write, at_run, at_cleanup) ==
    /\ proc[p].pc = "exec"
    /\ LET container_id == Val(proc[p].current_container_id)
           at_write == ContainerState(containers, container_id)
           r == exec_code_in_container_observed(at_write, at_run, at_cleanup, write, outcome)
       IN /\ NotBefore(at_write, at_run)
          /\ NotBefore(at_run, at_cleanup)
          /\ containers' =
                IF at_cleanup = at_write THEN containers
                ELSE IF at_cleanup = "gone"
                THEN [c \in DOMAIN containers \ {container_id} |-> containers[c]]
                ELSE [containers EXCEPT ![container_id].status = "exited"]
          /\ proc' = [proc EXCEPT ![p] =
               [@ EXCEPT
                   !.pc = "post_probe",
                   !.result = Some(r.result),
                   !.script_left = r.script_left,
                   !.executed_in = proc[p].current_container_id,
                   !.ops = Log(p, "exec_code_in_container")]]
    /\ UNCHANGED <<db, clock, nextId, nextCid, calls, sweeper>>

\* service.py line 187: probe the container again after the execution.
PostProbe(p, fault) ==
    /\ proc[p].pc = "post_probe"
    /\
         proc' = [proc EXCEPT ![p] =
              [@ EXCEPT
                  !.pc = "finalize",
                  !.post_exec_container_status =
                      get_container_status(containers, Val(proc[p].current_container_id), fault),
                  !.ops = Log(p, "get_container_status")]]
    /\ UNCHANGED <<db, clock, nextId, containers, nextCid, calls, sweeper>>

\* service.py lines 180-181: what is stored of the execution.
final_error_message_dropped(r) == None
final_error_message(r) == IF Truthy(r.error) THEN r.error ELSE None
final_execution_result(r) == IF Truthy(r.output) THEN r.output ELSE Some("No output.")

\* service.py lines 190-194: the status recorded after the execution.
db_status_after_exec_ignoring_exit(post, r) ==
    IF post # Some("running") THEN "failed" ELSE "running"
db_status_after_exec_success(post, r) ==
    IF post # Some("running") \/ (r.exit_code # Some(0) \/ Truthy(r.error))
    THEN "failed" ELSE "success"
db_status_after_exec(post, r) ==
    IF post # Some("running") \/ (r.exit_code # Some(0) \/ Truthy(r.error))
    THEN "failed" ELSE "running"

\* service.py lines 200-216: write the outcome and return the row; when the row
\* is gone the object in hand is patched and returned.
Finalize(p) ==
    /\ proc[p].pc = "finalize"
    /\ LET e == Val(proc[p].sandbox_entry)
           r == Val(proc[p].result)
           st == db_status_after_exec(proc[p].post_exec_container_status, r)
           d == update_sandbox_status(db, Now, e.id, st, None,
                    final_execution_result(r), final_error_message(r), r.exit_code)
           updated_entry == get_sandbox(d, e.id)
       IN /\ db' = d
          /\ clock' = Tick(d)
          /\ proc' = [proc EXCEPT ![p] =
               [@ EXCEPT
                   !.pc = "done",
                   !.sandbox_entry =
                       IF updated_entry # None THEN updated_entry
                       ELSE Some([e EXCEPT !.status = st,
                                           !.execution_result = final_execution_result(r),
                                           !.error_message = final_error_message(r),
                                           !.exit_code = r.exit_code]),
                   !.hist = Append(@, st),
                   !.ops = Log(p, "update_final")]]
    /\ UNCHANGED <<nextId, containers, nextCid, calls, sweeper>>

\* The call has returned or raised; the task is free for the next request.
Return(p) ==
    /\ proc[p].pc \in {"done", "raised"}
    /\ proc' = [proc EXCEPT ![p] = IdleProc]
    /\ UNCHANGED <<db, clock, nextId, containers, nextCid, calls, sweeper>>

\* One step of the call of task p; the runtime answers from the sets given:
\* API faults F, pull outcomes PL, start outcomes ST, execution outcomes X.
CallStep(p, F, PL, ST, X) ==
    \/ Lookup(p)
    \/ \E fault \in F : Probe(p, fault)
    \/ Reuse(p)
    \/ Restart(p)
    \/ Deactivate(p)
    \/ \E fault \in F : RemoveStale(p, fault)
    \/ \E fault \in F : Find(p, fault)
    \/ \E fault \in F : RemoveConflict(p, fault)
    \/ \E outcome \in PL : Pull(p, outcome)
    \/ Create(p)
    \/ \E outcome \in ST : StartContainer(p, outcome)
    \/ SetRunning(p)
    \/ MarkFailed(p)
    \/ \E outcome \in X : Exec(p, outcome)
    \/ \E fault \in F : PostProbe(p, fault)
    \/ Finalize(p)
    \/ Return(p)

\* --------------------------------------------------------------- the sweeps
\* service.py lines 232-235 (monitor_and_regenerate_broken_sandboxes): the
\* FAILED rows among the rows get_active_sandboxes returns.
BrokenSandboxes(d) ==
    SelectSeq(get_active_sandboxes(d), LAMBDA sb : sb.status = "failed")

\* main.py lines 28-31: the periodic task wakes from its sleep and calls
\* monitor_and_regenerate_broken_sandboxes, which reads the list.
MonitorList ==
    /\ sweeper.pc = "sleep"
    /\ sweeper' = [pc |-> "monitor_loop", queue |-> BrokenSandboxes(db)]
    /\ UNCHANGED <<db, clock, nextId, containers, nextCid, calls, proc>>

\* service.py lines 237-276: one iteration of the loop over the broken rows;
\* with the list exhausted the task goes on to cleanup_inactive_sandboxes.
MonitorLoopProvisions(fault, rmfault) ==
    /\ sweeper.pc = "monitor_loop"
    /\ db' = create_sandbox(db, Now, nextId, "A", DefaultBaseImage)
    /\ clock' = Now
    /\ nextId' = nextId + 1
    /\ sweeper' = [pc |-> "cleanup", queue |-> <<>>]
    /\ UNCHANGED <<containers, nextCid, calls, proc>>
MonitorLoop(fault, rmfault) ==
    /\ sweeper.pc = "monitor_loop"
    /\ IF sweeper.queue = <<>>
       THEN /\ sweeper' = [pc |-> "cleanup", queue |-> <<>>]
            /\ UNCHANGED <<db, clock, containers>>
       ELSE
            LET sandbox == Head(sweeper.queue)
                container_status ==
                    IF Truthy(sandbox.container_id)
                    THEN get_container_status(containers, Val(sandbox.container_id), fault)
                    ELSE None
                d == IF container_status = Some("running")
                     THEN update_sandbox_status(db, Now, sandbox.id, "running",
                              None, None, None, Some(0))
                     ELSE deactivate_sandbox(db, Now, sandbox.id)
            IN /\ db' = d
               /\ clock' = Tick(d)
               /\ containers' =
                    IF container_status # Some("running") /\ Truthy(sandbox.container_id)
                    THEN stop_and_remove_container(containers,
                             Val(sandbox.container_id), rmfault)
                    ELSE containers
               /\ sweeper' = [sweeper EXCEPT !.queue = Tail(@)]
    /\ UNCHANGED <<nextId, nextCid, calls, proc>>

\* service.py line 283 (cleanup_inactive_sandboxes): read all rows.
CleanupList ==
    /\ sweeper.pc = "cleanup"
    /\ sweeper' = [pc |-> "cleanup_loop", queue |-> get_all_sandboxes(db)]
    /\ UNCHANGED <<db, clock, nextId, containers, nextCid, calls, proc>>

\* service.py lines 284-297: the next row of the list; an active row is passed
\* over; for an inactive row with a container id the container that has the
\* agent's name is removed when its id is the row's. Errors are swallowed.
CleanupLoopByName(fault, rmfault) ==
    /\ sweeper.pc = "cleanup_loop"
    /\ IF sweeper.queue = <<>>
       THEN /\ sweeper' = [pc |-> "sleep", queue |-> <<>>]
            /\ UNCHANGED containers
       ELSE LET sandbox == Head(sweeper.queue) IN
            IF sandbox.is_active
            THEN /\ sweeper' = [sweeper EXCEPT !.queue = Tail(@)]
                 /\ UNCHANGED containers
            ELSE
                 LET container_obj ==
                         IF fault THEN None
                         ELSE find_container_by_name(containers,
                                  ContainerName(sandbox.llm_agent_id, sandbox.base_image))
                 IN /\ containers' =
                         IF Truthy(sandbox.container_id) /\ container_obj # None
                         THEN stop_and_remove_container(containers, Val(container_obj), rmfault)
                         ELSE containers
                    /\ sweeper' = [sweeper EXCEPT !.pc = "cleanup_delete"]
    /\ UNCHANGED <<db, clock, nextId, nextCid, calls, proc>>
CleanupLoop(fault, rmfault) ==
    /\ sweeper.pc = "cleanup_loop"
    /\ IF sweeper.queue = <<>>
       THEN /\ sweeper' = [pc |-> "sleep", queue |-> <<>>]
            /\ UNCHANGED containers
       ELSE LET sandbox == Head(sweeper.queue) IN
            IF sandbox.is_active
            THEN /\ sweeper' = [sweeper EXCEPT !.queue = Tail(@)]
                 /\ UNCHANGED containers
            ELSE
                 LET container_obj ==
                         IF fault THEN None
                         ELSE find_container_by_name(containers,
                                  ContainerName(sandbox.llm_agent_id, sandbox.base_image))
                 IN /\ containers' =
                         IF Truthy(sandbox.container_id) /\ container_obj # None
                            /\ container_obj = sandbox.container_id
                         THEN stop_and_remove_container(containers,
                                  Val(sandbox.container_id), rmfault)
                         ELSE containers
                    /\ sweeper' = [sweeper EXCEPT !.pc = "cleanup_delete"]
    /\ UNCHANGED <<db, clock, nextId, nextCid, calls, proc>>

\* service.py line 298: delete the inactive row.
CleanupDelete ==
    /\ sweeper.pc = "cleanup_delete"
    /\ db' = delete_sandbox(db, Head(sweeper.queue).id)
    /\ sweeper' = [pc |-> "cleanup_loop", queue |-> Tail(sweeper.queue)]
    /\ UNCHANGED <<clock, nextId, containers, nextCid, calls, proc>>

\* One step of the sweeps after the task has woken.
SweepStep(F) ==
    \/ \E fault \in F, rmfault \in F : MonitorLoop(fault, rmfault)
    \/ CleanupList
    \/ \E fault \in F, rmfault \in F : CleanupLoop(fault, rmfault)
    \/ CleanupDelete

\* ----------------------------------------------------------- the environment
\* A running container stops: its process exits or is killed from outside.
ExternalKill(c, st) ==
    /\ c \in DOMAIN containers
    /\ containers[c].status = "running"
    /\ containers' = [containers EXCEPT ![c].status = st]
    /\ UNCHANGED <<db, clock, nextId, nextCid, calls, proc, sweeper>>

\* A container is removed from the runtime from outside.
ExternalRemove(c) ==
    /\ c \in DOMAIN containers
    /\ containers' = [x \in DOMAIN containers \ {c} |-> containers[x]]
    /\ UNCHANGED <<db, clock, nextId, nextCid, calls, proc, sweeper>>

Env ==
    \/ \E c \in DOMAIN containers : ExternalKill(c, "exited")
    \/ \E c \in DOMAIN containers : ExternalRemove(c)

\* ------------------------------------------------------- the specifications
\* The requests: an agent and the image asked for (None: the default image).
Requests ==
    { <<"A", None>>, <<"A", Some("python:3.10-slim-bookworm")>>, <<"A", Some("node:18")>>,
      <<"B", Some("python:3.10-slim-bookworm")>> }

\* No call and no sweep is in progress.
Quiet ==
    /\ \A p \in Procs : Idle(p)
    /\ sweeper.pc = "sleep"

\* Calls and sweeps one after the other (main.py runs them on one event loop);
\* the runtime fails and changes at any moment.
Next ==
    \/ \E rq \in Requests :
          Quiet /\ calls < MaxCalls /\ Start(1, rq[1], rq[2])
    \/ CallStep(1, BOOLEAN, PullOutcomes, StartOutcomes, ExecOutcomes)
    \/ (Quiet /\ MonitorList)
    \/ SweepStep(BOOLEAN)
    \/ Env

Spec == Init /\ [][Next]_vars

\* Calls of one agent on a task each, overlapping each other and the sweeps
\* (spec section 5), against a runtime that does not fail and code that exits 0;
\* a request takes the first free task. Containers go only when a call or a
\* sweep removes them, so no call finds one stopped (no step at pc "restart").
NoFault == {FALSE}
CleanExit == [output |-> Some("out"), error |-> None, exit_code |-> Some(0)]
ConcCallStep(p) ==
    \/ Lookup(p)
    \/ Probe(p, FALSE)
    \/ Reuse(p)
    \/ Deactivate(p)
    \/ RemoveStale(p, FALSE)
    \/ Find(p, FALSE)
    \/ RemoveConflict(p, FALSE)
    \/ Pull(p, "pulled")
    \/ Create(p)
    \/ StartContainer(p, "started")
    \/ SetRunning(p)
    \/ MarkFailed(p)
    \/ Exec(p, CleanExit)
    \/ PostProbe(p, FALSE)
    \/ Finalize(p)
    \/ Return(p)
ConcNext ==
    \/ \E p \in Procs :
          /\ calls < MaxConcCalls
          /\ \A q \in Procs : q < p => ~Idle(q)
          /\ Start(p, "A", None)
    \/ \E p \in Procs : ConcCallStep(p)
    \/ MonitorList
    \/ SweepStep(NoFault)

SpecConc == Init /\ [][ConcNext]_vars

\* The lookup on its own: a request of agent "A" against any table of up to
\* MaxRows rows of the agents and images, each row active or deactivated, running
\* or failed, the rows last updated in any order (distinct times).
LookupTargets == { <<"A", "python:3.10-slim-bookworm">>, <<"A", "node:18">>,
                   <<"B", "python:3.10-slim-bookworm">> }
LookupFlavours == { <<a, st>> : a \in BOOLEAN, st \in {"running", "failed"} }
LookupRow(i, target, flavour, updated) ==
    [NewSandbox(i, target[1], target[2], i) EXCEPT
        !.container_id = Some(i),
        !.is_active = flavour[1],
        !.status = flavour[2],
        !.last_updated_at = updated]
LookupTimes(n) == {f \in [1..n -> 1..n] : \A i, j \in 1..n : f[i] = f[j] => i = j}
LookupRequests == { <<"A", None>>, <<"A", Some("node:18")>> }

InitLookup ==
    /\ \E n \in 0..MaxRows :
         \E tg \in [1..n -> LookupTargets], fl \in [1..n -> LookupFlavours],
            ts \in LookupTimes(n) :
              db = [i \in 1..n |-> LookupRow(i, tg[i], fl[i], n + ts[i])]
    /\ clock = 2 * Len(db)
    /\ nextId = Len(db) + 1
    /\ containers = <<>>
    /\ nextCid = Len(db) + 1
    /\ calls = 0
    /\ proc = [p \in Procs |-> IdleProc]
    /\ sweeper = [pc |-> "sleep", queue |-> <<>>]

LookupNext ==
    \/ \E rq \in LookupRequests : calls < 1 /\ Start(1, rq[1], rq[2])
    \/ Lookup(1)

SpecLookup == InitLookup /\ [][LookupNext]_vars

\* The sweeps on their own (service.py lines 225-299 called with no request in
\* progress): any table of up to MaxSweepRows rows as the calls leave them, and
\* a runtime that holds for each agent at most one container of its name, the
\* container of one of its rows or a newer one, running or exited.
SweepFlavours ==
    { [is_active |-> TRUE,  status |-> "running", has_container |-> TRUE],
      [is_active |-> TRUE,  status |-> "failed",  has_container |-> TRUE],
      [is_active |-> TRUE,  status |-> "failed",  has_container |-> FALSE],
      [is_active |-> FALSE, status |-> "running", has_container |-> TRUE],
      [is_active |-> FALSE, status |-> "failed",  has_container |-> TRUE] }
SweepRow(i, llm_agent_id, flavour) ==
    [NewSandbox(i, llm_agent_id, DefaultBaseImage, i) EXCEPT
        !.container_id = IF flavour.has_container THEN Some(i) ELSE None,
        !.is_active = flavour.is_active,
        !.status = flavour.status,
        !.error_message = IF flavour.status = "failed" THEN Some("stderr") ELSE None]
\* The container of the name of an agent: none, or <<id, status>>.
SweepContainerChoices(d, llm_agent_id, fresh) ==
    {None} \cup
    { <<c, st>> : c \in {d[i].id : i \in {j \in 1..Len(d) :
                                             /\ d[j].llm_agent_id = llm_agent_id
                                             /\ Truthy(d[j].container_id)}} \cup {fresh},
                  st \in {"running", "exited"} }
SweepContainers(ca, cb) ==
    [c \in (IF ca = None THEN {} ELSE {ca[1]}) \cup (IF cb = None THEN {} ELSE {cb[1]}) |->
        IF ca # None /\ c = ca[1]
        THEN [name |-> ContainerName("A", DefaultBaseImage), image |-> DefaultBaseImage,
              status |-> ca[2]]
        ELSE [name |-> ContainerName("B", DefaultBaseImage), image |-> DefaultBaseImage,
              status |-> cb[2]]]

InitSweep ==
    /\ \E n \in 0..MaxSweepRows :
         \E ag \in [1..n -> Agents], fl \in [1..n -> SweepFlavours] :
            /\ db = [i \in 1..n |-> SweepRow(i, ag[i], fl[i])]
            /\ clock = n
            /\ nextId = n + 1
            /\ nextCid = n + 3
            /\ \E ca \in SweepContainerChoices(db, "A", n + 1),
                  cb \in SweepContainerChoices(db, "B", n + 2) :
                    containers = SweepContainers(ca, cb)
    /\ calls = 0
    /\ proc = [p \in Procs |-> IdleProc]
    /\ sweeper = [pc |-> "sleep", queue |-> <<>>]

SweepNext ==
    \/ MonitorList
    \/ SweepStep(BOOLEAN)

SpecSweep == InitSweep /\ [][SweepNext]_vars

\* main.py lines 26-33: the periodic task is a loop that never ends; after
\* every sleep it runs both sweeps, each to its end, so a step of the task that
\* can be taken is taken eventually. No request arrives.
SpecSweepFair == InitSweep /\ [][SweepNext]_vars /\ WF_vars(SweepNext)

\* exec_code_in_container on its own: a first call of an agent has provisioned
\* its container (service.py lines 105-156) and is about to execute; the
\* container runs, or has stopped or disappeared since; it may stop or
\* disappear during the execution. The call then goes on to its end.
ExecStarts ==
    { [agent |-> a, image |-> i, state |-> st] :
         a \in Agents, i \in {DefaultBaseImage, "node:18"},
         st \in {"running", "stopped", "gone"} }
InitExec ==
    \E x \in ExecStarts :
        LET row == [NewSandbox(1, x.agent, x.image, 1) EXCEPT
                        !.container_id = Some(1),
                        !.status = "running",
                        !.execution_result = Some("Sandbox session started."),
                        !.exit_code = Some(0),
                        !.last_updated_at = 2]
        IN /\ db = <<row>>
           /\ clock = 2
           /\ nextId = 2
           /\ containers =
                 IF x.state = "gone" THEN <<>>
                 ELSE [c \in {1} |->
                         [name |-> ContainerName(x.agent, x.image), image |-> x.image,
                          status |-> IF x.state = "running" THEN "running" ELSE "exited"]]
           /\ nextCid = 2
           /\ calls = 1
           /\ proc = [p \in Procs |->
                 IF p = 1
                 THEN [IdleProc EXCEPT
                         !.pc = "exec",
                         !.llm_agent_id = x.agent,
                         !.base_image = x.image,
                         !.sandbox_entry = Some(row),
                         !.current_container_id = Some(1),
                         !.created = Some(1),
                         !.hist = <<"pending", "running">>,
                         !.ops = <<"get_all_sandboxes", "find_container_by_name", "pull_image",
                                   "create_sandbox", "start_container", "update_running">>]
                 ELSE IdleProc]
           /\ sweeper = [pc |-> "sleep", queue |-> <<>>]

ExecNext ==
    \/ \E outcome \in ExecOutcomes, write \in WriteOutcomes,
          at_run \in {"running", "stopped", "gone"},
          at_cleanup \in {"running", "stopped", "gone"} :
             ExecObserved(1, outcome, write, at_run, at_cleanup)
    \/ \E fault \in BOOLEAN : PostProbe(1, fault)
    \/ Finalize(1)
    \/ Return(1)

SpecExec == InitExec /\ [][ExecNext]_vars

\* A call whose code may also never terminate; every step the call can take is
\* taken eventually.
HangNext ==
    \/ ExecNext
    \/ ExecHangs(1)

SpecHang == InitExec /\ [][HangNext]_vars /\ WF_vars(HangNext)

\* A race and the call after it: one call per task of the same agent and image,
\* overlapping in any way, and once all have returned one more call that runs
\* alone. No sweep runs; the runtime does not fail and the code exits 0.
RaceNext ==
    \/ \E p \in Procs :
          /\ calls < Cardinality(Procs)
          /\ \A q \in Procs : q < p => ~Idle(q)
          /\ Start(p, "A", None)
    \/ /\ \A q \in Procs : Idle(q)
       /\ calls = Cardinality(Procs)
       /\ Start(1, "A", None)
    \/ \E p \in Procs : ConcCallStep(p)

SpecRace == Init /\ [][RaceNext]_vars

\* A sweep and foreground traffic: one call of agent "A" against any table and
\* runtime of InitSweep, its steps interleaved in any way with the steps of the
\* periodic task. The code exits 0 and the runtime does not fail, except that
\* start_container may: a call fails by that or by what the sweep does.
TrafficNext ==
    \/ (calls = 0 /\ Start(1, "A", None))
    \/ CallStep(1, NoFault, {"pulled"}, StartOutcomes, {CleanExit})
    \/ MonitorList
    \/ SweepStep(NoFault)

SpecTraffic == InitSweep /\ [][TrafficNext]_vars

\* The calls with every step of exec_code_in_container observed: as Next, one
\* call after the other and the sweeps between them, with the container
\* stopping or disappearing at any point of the execution and the write and
\* the cleanup of the script failing or not.
ObservedCallStep(p) ==
    \/ Lookup(p)
    \/ \E fault \in BOOLEAN : Probe(p, fault)
    \/ Reuse(p)
    \/ Restart(p)
    \/ Deactivate(p)
    \/ \E fault \in BOOLEAN : RemoveStale(p, fault)
    \/ \E fault \in BOOLEAN : Find(p, fault)
    \/ \E fault \in BOOLEAN : RemoveConflict(p, fault)
    \/ \E outcome \in PullOutcomes : Pull(p, outcome)
    \/ Create(p)
    \/ \E outcome \in StartOutcomes : StartContainer(p, outcome)
    \/ SetRunning(p)
    \/ MarkFailed(p)
    \/ \E outcome \in {CleanExit}, write \in WriteOutcomes,
          at_run \in {"running", "stopped", "gone"},
          at_cleanup \in {"running", "stopped", "gone"} :
             ExecObserved(p, outcome, write, at_run, at_cleanup)
    \/ \E fault \in BOOLEAN : PostProbe(p, fault)
    \/ Finalize(p)
    \/ Return(p)
ObservedNext ==
    \/ (Quiet /\ calls < MaxCalls /\ Start(1, "A", None))
    \/ ObservedCallStep(1)
    \/ (Quiet /\ MonitorList)
    \/ SweepStep(BOOLEAN)
    \/ Env

SpecObserved == Init /\ [][ObservedNext]_vars

\* Calls of the two agents, those of "A" on task 1 and those of "B" on task
\* 2, overlapping in any way; the runtime answers without faults, except that
\* start_container may fail, and the code exits 0. At the start an
\* agent has no record, or the record and the container an earlier call of it
\* has left, the container running, exited or gone since.
AgentOf(p) == IF p = 1 THEN "A" ELSE "B"
AgentStarts == {"none", "running", "exited", "gone"}
AgentRow(p) ==
    [NewSandbox(p, AgentOf(p), DefaultBaseImage, p) EXCEPT
        !.container_id = Some(p),
        !.status = "running",
        !.execution_result = Some("out"),
        !.exit_code = Some(0),
        !.last_updated_at = Cardinality(Procs) + p]
InitAgents ==
    /\ \E st \in [Procs -> AgentStarts] :
          /\ db = IF st[1] = "none"
                  THEN (IF st[2] = "none" THEN <<>> ELSE <<AgentRow(2)>>)
                  ELSE (IF st[2] = "none" THEN <<AgentRow(1)>> ELSE <<AgentRow(1), AgentRow(2)>>)
          /\ containers =
                [p \in {q \in Procs : st[q] \in {"running", "exited"}} |->
                    [name |-> ContainerName(AgentOf(p), DefaultBaseImage),
                     image |-> DefaultBaseImage, status |-> st[p]]]
    /\ clock = 2 * Cardinality(Procs)
    /\ nextId = Cardinality(Procs) + 1
    /\ nextCid = Cardinality(Procs) + 1
    /\ calls = 0
    /\ proc = [p \in Procs |-> IdleProc]
    /\ sweeper = [pc |-> "sleep", queue |-> <<>>]

AgentsNext ==
    \/ \E p \in Procs :
          /\ calls < MaxCalls
          /\ Start(p, AgentOf(p), None)
    \/ \E p \in Procs : CallStep(p, NoFault, {"pulled"}, StartOutcomes, {CleanExit})

SpecAgents == InitAgents /\ [][AgentsNext]_vars

\* The store functions on their own: one call of update_sandbox_status,
\* get_active_sandboxes or get_broken_sandboxes (crud.py) against any table of up
\* to MaxStoreRows rows, each row in any status, active or deactivated. A row
\* that is past PENDING has a container id, a result and an exit code, a FAILED
\* row an error message too. The call in flight is held in proc[1].
StoreRow(i, status, is_active) ==
    [NewSandbox(i, "A", DefaultBaseImage, i) EXCEPT
        !.status = status,
        !.is_active = is_active,
        !.container_id = IF status = "pending" THEN None ELSE Some(i),
        !.execution_result = IF status = "pending" THEN None ELSE Some("out"),
        !.error_message = IF status = "failed" THEN Some("stderr") ELSE None,
        !.exit_code = IF status = "pending" THEN None
                      ELSE IF status = "failed" THEN Some(1) ELSE Some(0)]

StoreIdle == [pc |-> "idle", op |-> "none", args |-> None, returned |-> None]

\* The arguments of update_sandbox_status (crud.py lines 35-39): an id of the
\* table or one past it, and each optional argument supplied or not.
UpdateArgs ==
    [ id : 1..(MaxStoreRows + 1),
      status : {"running", "failed"},
      container_id : {None, Some(9)},
      execution_result : {None, Some("new output")},
      error_message : {None, Some("new error")},
      exit_code : {None, Some(0), Some(2)} ]

InitStore ==
    /\ \E n \in 0..MaxStoreRows :
         \E st \in [1..n -> SandboxStatus], ac \in [1..n -> BOOLEAN] :
            /\ db = [i \in 1..n |-> StoreRow(i, st[i], ac[i])]
            /\ clock = n
            /\ nextId = n + 1
    /\ containers = <<>>
    /\ nextCid = 1
    /\ calls = 0
    /\ proc = [p \in Procs |-> StoreIdle]
    /\ sweeper = [pc |-> "sleep", queue |-> <<>>]

\* A caller makes its one call.
StoreCall(op, args) ==
    /\ calls = 0
    /\ proc[1].pc = "idle"
    /\ proc' = [proc EXCEPT ![1] = [pc |-> "call", op |-> op, args |-> args, returned |-> None]]
    /\ calls' = calls + 1
    /\ UNCHANGED <<db, clock, nextId, containers, nextCid, sweeper>>

\* crud.py lines 35-54: update_sandbox_status runs and returns the row, or None.
StoreUpdate ==
    /\ proc[1].pc = "call"
    /\ proc[1].op = "update_sandbox_status"
    /\ LET a == Val(proc[1].args)
           d == update_sandbox_status(db, Now, a.id, a.status, a.container_id,
                    a.execution_result, a.error_message, a.exit_code)
       IN /\ db' = d
          /\ clock' = Tick(d)
          /\ proc' = [proc EXCEPT ![1].pc = "returned",
                                  ![1].returned = Some(get_sandbox(d, a.id))]
    /\ UNCHANGED <<nextId, containers, nextCid, calls, sweeper>>

\* crud.py lines 65-77: get_active_sandboxes or get_broken_sandboxes returns its list.
StoreList ==
    /\ proc[1].pc = "call"
    /\ proc[1].op \in {"get_active_sandboxes", "get_broken_sandboxes"}
    /\ proc' = [proc EXCEPT
                   ![1].pc = "returned",
                   ![1].returned = Some(IF proc[1].op = "get_active_sandboxes"
                                        THEN get_active_sandboxes(db)
                                        ELSE get_broken_sandboxes(db))]
    /\ UNCHANGED <<db, clock, nextId, containers, nextCid, calls, sweeper>>

\* The caller has its answer.
StoreReturn ==
    /\ proc[1].pc = "returned"
    /\ proc' = [proc EXCEPT ![1] = StoreIdle]
    /\ UNCHANGED <<db, clock, nextId, containers, nextCid, calls, sweeper>>

StoreNext ==
    \/ \E args \in UpdateArgs : StoreCall("update_sandbox_status", Some(args))
    \/ \E op \in {"get_active_sandboxes", "get_broken_sandboxes"} : StoreCall(op, None)
    \/ StoreUpdate
    \/ StoreList
    \/ StoreReturn

SpecStore == InitStore /\ [][StoreNext]_vars

\* The runtime client functions on their own: one call of pull_image with any
\* answer of the runtime, or one call of exec_code_in_container up to its choice
\* of interpreter, for any image name of up to MaxNameLen fragments, or up to
\* its write of the script, for any code string of up to MaxCodeLen characters.
Codes == UNION {[1..n -> CodeChars] : n \in 0..MaxCodeLen}
ImageNames == UNION {[1..n -> NameFragments] : n \in 0..MaxNameLen}

InitClient ==
    /\ db = <<>>
    /\ clock = 0
    /\ nextId = 1
    /\ containers = <<>>
    /\ nextCid = 1
    /\ calls = 0
    /\ proc = [p \in Procs |-> StoreIdle]
    /\ sweeper = [pc |-> "sleep", queue |-> <<>>]

\* docker_client.py lines 19-30: pull_image runs.
ClientPull ==
    /\ proc[1].pc = "call"
    /\ proc[1].op = "pull_image"
    /\ proc' = [proc EXCEPT ![1].pc = "returned",
                            ![1].returned = Some(pull_image_call(Val(proc[1].args)))]
    /\ UNCHANGED <<db, clock, nextId, containers, nextCid, calls, sweeper>>

\* docker_client.py lines 69-84: exec_code_in_container chooses the interpreter.
ClientSelect ==
    /\ proc[1].pc = "call"
    /\ proc[1].op = "exec_code_in_container"
    /\ proc' = [proc EXCEPT ![1].pc = "returned",
                            ![1].returned = Some(select_interpreter(Val(proc[1].args)))]
    /\ UNCHANGED <<db, clock, nextId, containers, nextCid, calls, sweeper>>

\* docker_client.py lines 90-106: exec_code_in_container writes the script.
ClientWrite ==
    /\ proc[1].pc = "call"
    /\ proc[1].op = "write_script"
    /\ proc' = [proc EXCEPT ![1].pc = "returned",
                            ![1].returned = Some(write_script(Val(proc[1].args)))]
    /\ UNCHANGED <<db, clock, nextId, containers, nextCid, calls, sweeper>>

ClientNext ==
    \/ \E outcome \in PullOutcomes : StoreCall("pull_image", Some(outcome))
    \/ \E base_image \in ImageNames : StoreCall("exec_code_in_container", Some(base_image))
    \/ \E code_string \in Codes : StoreCall("write_script", Some(code_string))
    \/ ClientPull
    \/ ClientSelect
    \/ ClientWrite
    \/ StoreReturn

SpecClient == InitClient /\ [][ClientNext]_vars

\* ================================================================ the claims
Rows(d) == {d[i] : i \in 1..Len(d)}
IsRunning(cs, o) == Truthy(o) /\ Val(o) \in DOMAIN cs /\ cs[Val(o)].status = "running"
Has(p, op) == \E i \in DOMAIN proc[p].ops : proc[p].ops[i] = op
Count(p, op) == Cardinality({i \in DOMAIN proc[p].ops : proc[p].ops[i] = op})
\* The record the call of p returns, its anchor and the outcome of its execution.
Ret(p) == Val(proc[p].sandbox_entry)
AnchorOf(p) == Val(proc[p].anchor)
HadContainer(p) == proc[p].anchor # None /\ Truthy(AnchorOf(p).container_id)
Outcome(p) == Val(proc[p].result)
\* The call of p has got its answer from the verify-step probe.
Probed(p) == HadContainer(p) /\ proc[p].pc \notin {"idle", "lookup", "probe"}

\* The active rows of an agent whose container the runtime reports running.
LiveSessions(a) ==
    {r \in Rows(db) : r.llm_agent_id = a /\ r.is_active /\ IsRunning(containers, r.container_id)}

\* C1: in every state, so after every call that returns, and through any
\* sequence of calls, sweeps and external kills, each agent has at most one
\* active row whose container the runtime reports running.
C1_AtMostOneLiveSession ==
    \A a \in Agents : Cardinality(LiveSessions(a)) <= 1

\* C1 witness: a call has returned and its agent has two active rows that name
\* a container, one of them running.
C1_Witness ==
    /\ Returned(1)
    /\ \E a \in Agents :
         /\ Cardinality(LiveSessions(a)) = 1
         /\ Cardinality({r \in Rows(db) : r.llm_agent_id = a /\ r.is_active
                                          /\ Truthy(r.container_id)}) = 2

C3_FinalizeTable ==
    \A p \in Procs :
        Returned(p) =>
            LET post == proc[p].post_exec_container_status
                clean == Outcome(p).exit_code = Some(0) /\ Outcome(p).error = None
                n == Len(proc[p].ops)
            IN /\ (post = Some("running") /\ clean) => Ret(p).status = "running"
               /\ (post = Some("running") /\ ~clean) =>
                      (Ret(p).status = "failed" /\ Ret(p).exit_code = Outcome(p).exit_code)
               /\ post # Some("running") => Ret(p).status = "failed"
               /\ get_sandbox(db, Ret(p).id) = Some(Ret(p))
               /\ SubSeq(proc[p].ops, n - 2, n) =
                      <<"exec_code_in_container", "get_container_status", "update_final">>

\* C3 witness: the code exited 7 without stderr in a container that still runs
\* on return; the record returned is failed with exit code 7.
C3_Witness ==
    /\ Returned(1)
    /\ proc[1].post_exec_container_status = Some("running")
    /\ Outcome(1).exit_code = Some(7)
    /\ Outcome(1).error = None
    /\ Ret(1).status = "failed"
    /\ Ret(1).exit_code = Some(7)
    /\ IsRunning(containers, Ret(1).container_id)

\* C4: the record a call returns holds the outcome of the execution of that
\* call: its stdout (or "No output."), its stderr (None when there was none) and
\* its exit code.
C4_OutcomeOfThisCall ==
    \A p \in Procs :
        Returned(p) =>
            /\ Ret(p).execution_result = final_execution_result(Outcome(p))
            /\ Ret(p).error_message = final_error_message(Outcome(p))
            /\ Ret(p).exit_code = Outcome(p).exit_code

\* C5: a first call of an agent (no row found) whose code exits 0 without
\* stderr in a container that stays running takes its row through pending and
\* running and returns it with status success and exit code 0.
C5_FirstCallEndsSuccess ==
    \A p \in Procs :
        (/\ Returned(p)
         /\ proc[p].anchor = None
         /\ Outcome(p).exit_code = Some(0)
         /\ Outcome(p).error = None
         /\ proc[p].post_exec_container_status = Some("running")) =>
            /\ proc[p].hist = <<"pending", "running", "success">>
            /\ Ret(p).status = "success"
            /\ Ret(p).exit_code = Some(0)

\* C6: once the verify-step probe has said running, whatever status the anchor
\* records, the call pulls no image, starts no container, stops and removes
\* none and creates no row; when it returns, the code ran in the anchor's
\* container and the record returned is the anchor's row.
C6_ReuseTouchesNothing ==
    \A p \in Procs :
        (Probed(p) /\ proc[p].docker_container_status = Some("running")) =>
            /\ ~Has(p, "pull_image")
            /\ ~Has(p, "start_container")
            /\ ~Has(p, "stop_and_remove_container")
            /\ ~Has(p, "create_sandbox")
            /\ proc[p].created = None
            /\ Returned(p) =>
                  /\ proc[p].executed_in = AnchorOf(p).container_id
                  /\ Ret(p).id = AnchorOf(p).id

\* C6 witness: a call returned after reusing the running container of an anchor
\* whose recorded status was failed.
C6_Witness ==
    /\ Returned(1)
    /\ HadContainer(1)
    /\ proc[1].docker_container_status = Some("running")
    /\ AnchorOf(1).status = "failed"
    /\ proc[1].executed_in = AnchorOf(1).container_id

C7_WitnessGone ==
    /\ Returned(1)
    /\ HadContainer(1)
    /\ proc[1].docker_container_status = None
    /\ Ret(1).id # AnchorOf(1).id

\* C8: a call whose probe found the anchor's container known but stopped sends
\* exactly one start request for that container to the runtime, and
\* deactivates the anchor only when that request failed.
C8_RestartAttempted ==
    \A p \in Procs :
        (/\ Probed(p)
         /\ proc[p].docker_container_status # None
         /\ Val(proc[p].docker_container_status) \in KnownStopped
         /\ proc[p].pc # "restart") =>
            Count(p, "runtime_start") = 1

\* C9: right after the lookup of a call, the anchor is a row of the table with
\* the agent and image of the request whose last_updated_at is the greatest
\* among all such rows, whatever its is_active flag and status; there is no
\* anchor exactly when the table has no such row.
C9_AnchorIsNewestMatching ==
    \A p \in Procs :
        proc[p].ops = <<"get_all_sandboxes">> =>
            LET matching == {r \in Rows(db) :
                                /\ r.llm_agent_id = proc[p].llm_agent_id
                                /\ r.base_image = proc[p].base_image}
            IN /\ (proc[p].anchor = None) <=> (matching = {})
               /\ proc[p].anchor # None =>
                     /\ AnchorOf(p) \in matching
                     /\ \A r \in matching : r.last_updated_at <= AnchorOf(p).last_updated_at

\* C9 witness: the lookup chose a deactivated, failed row over an older row of
\* the same agent and image that is active and running, while a row of another
\* agent or image is newer than both.
C9_Witness ==
    /\ proc[1].ops = <<"get_all_sandboxes">>
    /\ proc[1].anchor # None
    /\ ~AnchorOf(1).is_active
    /\ AnchorOf(1).status = "failed"
    /\ \E r \in Rows(db) :
          /\ r.llm_agent_id = proc[1].llm_agent_id
          /\ r.base_image = proc[1].base_image
          /\ r.is_active
          /\ r.status = "running"
          /\ r.last_updated_at < AnchorOf(1).last_updated_at
    /\ \E r \in Rows(db) :
          /\ r.base_image # proc[1].base_image \/ r.llm_agent_id # proc[1].llm_agent_id
          /\ r.last_updated_at > AnchorOf(1).last_updated_at

\* C10: at every lookup that chooses an anchor, the table holds no row of the
\* same agent and image that was created after the anchor and has been
\* provisioned (its container id recorded): no call goes back to a row older
\* than a provisioned one, however calls and sweeps interleave.
C10_NoOlderAnchor ==
    [][\A p \in Procs :
          (proc[p].pc = "lookup" /\ proc'[p].pc # "lookup" /\ proc'[p].anchor # None) =>
              ~\E r \in Rows(db) :
                  /\ r.llm_agent_id = proc[p].llm_agent_id
                  /\ r.base_image = proc[p].base_image
                  /\ Truthy(r.container_id)
                  /\ r.created_at > Val(proc'[p].anchor).created_at]_vars

\* The call of p has had its start_container fail (service.py line 158 entered
\* from line 138): the container was asked for and no id came back.
StartFailed(p) ==
    /\ proc[p].pc \in {"mark_failed", "raised"}
    /\ Has(p, "start_container")
    /\ proc[p].current_container_id = None

\* C11: when start_container fails, start_container has been called once in
\* the call and no code is executed; the call ends by raising to the caller,
\* and then the row it created is failed, has an error message and has no
\* container id.
C11_StartFailureMarksFailed ==
    \A p \in Procs :
        /\ Count(p, "start_container") <= 1
        /\ StartFailed(p) =>
              /\ Count(p, "start_container") = 1
              /\ ~Has(p, "exec_code_in_container")
              /\ proc[p].executed_in = None
              /\ proc[p].created # None
              /\ proc[p].pc = "raised" =>
                    LET row == get_sandbox(db, Val(proc[p].created))
                    IN /\ row # None
                       /\ Val(row).status = "failed"
                       /\ Truthy(Val(row).error_message)
                       /\ Val(row).container_id = None

\* C11 witness: a call has raised after its start_container failed, leaving its
\* row failed with the error recorded.
C11_Witness ==
    /\ StartFailed(1)
    /\ proc[1].pc = "raised"
    /\ Val(get_sandbox(db, Val(proc[1].created))).status = "failed"
    /\ Val(get_sandbox(db, Val(proc[1].created))).error_message = Some("Provisioning error")

\* C12: a call whose pull_image failed has raised with no row created, no
\* container started and no code executed; and in every call the steps of
\* provisioning come in the order removal of the container that has the name,
\* pull_image, create_sandbox (the row is pending), start_container.
C12_PullFailureAndOrder ==
    \A p \in Procs :
        LET ops == proc[p].ops
            n == Len(ops)
        IN /\ (n > 0 /\ ops[n] = "pull_image" /\ proc[p].pc # "create") =>
                  /\ proc[p].pc = "raised"
                  /\ proc[p].created = None
                  /\ ~Has(p, "create_sandbox")
                  /\ ~Has(p, "start_container")
                  /\ ~Has(p, "exec_code_in_container")
           /\ \A i \in 1..n :
                  /\ ops[i] = "pull_image" =>
                        /\ i > 1
                        /\ \/ ops[i - 1] = "find_container_by_name"
                           \/ /\ ops[i - 1] = "stop_and_remove_container"
                              /\ i > 2
                              /\ ops[i - 2] = "find_container_by_name"
                  /\ ops[i] = "create_sandbox" => (i > 1 /\ ops[i - 1] = "pull_image")
                  /\ ops[i] = "start_container" => (i > 1 /\ ops[i - 1] = "create_sandbox")
           /\ proc[p].pc = "start" =>
                  (proc[p].sandbox_entry # None /\ Val(proc[p].sandbox_entry).status = "pending")

\* C12 witness: a call that found and removed a container of its name has
\* raised at the pull, while the table holds no row for it.
C12_Witness ==
    /\ proc[1].pc = "raised"
    /\ proc[1].ops[Len(proc[1].ops)] = "pull_image"
    /\ Has(1, "stop_and_remove_container")
    /\ proc[1].created = None
    /\ nextId = Len(db) + 1

\* C13: whenever a call is about to call start_container, the runtime holds no
\* container of the name sandbox-<agent>: one that was there when provisioning
\* began has been stopped and removed, so the start cannot fail on the name.
C13_NameFreeAtStart ==
    \A p \in Procs :
        proc[p].pc = "start" =>
            find_container_by_name(containers,
                ContainerName(proc[p].llm_agent_id, proc[p].base_image)) = None

\* C14: no step of a call for an agent and image removes a running container
\* that an active row of the same agent and another image names.
C14_OtherImageContainerKept ==
    [][\A p \in Procs : \A c \in DOMAIN containers :
          (/\ proc[p].pc \in {"remove_stale", "remove_conflict"}
           /\ proc'[p].pc # proc[p].pc
           /\ containers[c].status = "running"
           /\ \E r \in Rows(db) :
                 /\ r.is_active
                 /\ r.container_id = Some(c)
                 /\ r.llm_agent_id = proc[p].llm_agent_id
                 /\ r.base_image # proc[p].base_image) =>
              c \in DOMAIN containers']_vars

\* C15: when monitor_and_regenerate_broken_sandboxes has returned, no active
\* row whose container the runtime reports running is still failed: the sweep
\* has set it to running.
C15_RunningRepaired ==
    sweeper.pc = "cleanup" =>
        \A r \in Rows(db) :
            (r.is_active /\ IsRunning(containers, r.container_id)) => r.status # "failed"

\* C16: when monitor_and_regenerate_broken_sandboxes has returned, no failed
\* row whose container is stopped or unknown to the runtime is still active:
\* the sweep has deactivated it, and the runtime no longer holds the container.
C16_GoneDeactivated ==
    sweeper.pc = "cleanup" =>
        \A r \in Rows(db) :
            (/\ r.status = "failed"
             /\ Truthy(r.container_id)
             /\ ~IsRunning(containers, r.container_id)) =>
                (~r.is_active /\ Val(r.container_id) \notin DOMAIN containers)

\* A step of monitor_and_regenerate_broken_sandboxes / of cleanup_inactive_sandboxes.
RepairStep == sweeper.pc \in {"sleep", "monitor_loop"} /\ sweeper' # sweeper
EvictStep == sweeper.pc \in {"cleanup", "cleanup_loop", "cleanup_delete"} /\ sweeper' # sweeper
NoInactive(d) == \A r \in Rows(d) : r.is_active
\* Ids of rows that have been deleted from the table.
Deleted == {i \in 1..(nextId - 1) : get_sandbox(db, i) = None}

\* C17: no step of monitor_and_regenerate_broken_sandboxes executes code (the
\* request tasks, which hold every execution, are untouched), starts a
\* container (no new container, none becomes running) or creates a row.
C17_RepairRunsNothing ==
    [][RepairStep =>
          /\ proc' = proc
          /\ nextCid' = nextCid
          /\ DOMAIN containers' \subseteq DOMAIN containers
          /\ \A c \in DOMAIN containers' :
                containers'[c].status = "running" => containers[c].status = "running"
          /\ nextId' = nextId
          /\ Len(db') <= Len(db)
          /\ \A r \in Rows(db') : get_sandbox(db, r.id) # None]_vars

\* C17 witness: the repair sweep has returned over a table that holds an active
\* failed row with a running container and one with a stopped container.
C17_Witness ==
    /\ sweeper.pc = "cleanup"
    /\ \E r \in Rows(db) :
          r.is_active /\ r.status = "failed" /\ IsRunning(containers, r.container_id)
    /\ \E r \in Rows(db) :
          /\ r.is_active /\ r.status = "failed" /\ Truthy(r.container_id)
          /\ ~IsRunning(containers, r.container_id)

\* C18: a run of cleanup_inactive_sandboxes ends with no inactive row in the
\* table, and a run over a table with no inactive row (so a second run right
\* after a first) deletes no row, removes no container and leaves the table
\* and the runtime as they are.
C18_EvictIdempotent ==
    [][EvictStep =>
          /\ (sweeper'.pc = "sleep") => NoInactive(db')
          /\ NoInactive(db) => (db' = db /\ containers' = containers
                                 /\ sweeper'.pc # "cleanup_delete")]_vars

\* C18 witness: a run has deleted a row and ended, and the next run is at a row
\* that comes before the deleted one in the table (a run goes through the rows
\* in order, so the deletion was made by an earlier run).
C18_Witness ==
    /\ sweeper.pc = "cleanup_loop"
    /\ NoInactive(db)
    /\ sweeper.queue # <<>>
    /\ \E i \in Deleted : Head(sweeper.queue).id < i

\* C19: a run of cleanup_inactive_sandboxes ends with no inactive row in the
\* table; its steps delete inactive rows only and leave every active row as it
\* is; and the only container a step removes is the one whose id is the
\* container id of the inactive row being deleted, every other container (one
\* of the same name with another id too) staying as it is.
C19_EvictFrame ==
    [][EvictStep =>
          /\ (sweeper'.pc = "sleep") => NoInactive(db')
          /\ SelectSeq(db', LAMBDA r : r.is_active) = SelectSeq(db, LAMBDA r : r.is_active)
          /\ \A r \in Rows(db') : r \in Rows(db)
          /\ \A c \in DOMAIN containers' : c \in DOMAIN containers /\ containers'[c] = containers[c]
          /\ \A c \in DOMAIN containers \ DOMAIN containers' :
                /\ sweeper.queue # <<>>
                /\ ~Head(sweeper.queue).is_active
                /\ Head(sweeper.queue).container_id = Some(c)
                /\ sweeper'.pc = "cleanup_delete"]_vars

\* C19 witness: the run is about to delete an inactive row after it has left
\* running a container that has the name of the row's agent and another id.
C19_Witness ==
    /\ sweeper.pc = "cleanup_delete"
    /\ LET sandbox == Head(sweeper.queue)
       IN /\ Truthy(sandbox.container_id)
          /\ \E c \in DOMAIN containers :
                /\ containers[c].name = ContainerName(sandbox.llm_agent_id, sandbox.base_image)
                /\ Some(c) # sandbox.container_id
                /\ containers[c].status = "running"

\* C20: once exec_code_in_container has returned, on every path, the script
\* it wrote is no longer in the shared directory.
C20_NoScriptLeft ==
    \A p \in Procs :
        proc[p].pc \in {"post_probe", "finalize", "done"} => ~proc[p].script_left

\* C21: a call whose code never terminates in the container still returns to
\* the caller eventually, and its session is then recorded as failed.
C21_HangReturns ==
    \A p \in Procs :
        (proc[p].pc = "exec_run")
            ~> (/\ proc[p].pc = "done"
                /\ \E r \in Rows(db) : Some(r.id) = Ret(p) /\ r.status = "failed")

\* C22: at process start the periodic task runs the two sweeps before it waits
\* for the first time (it does not begin in its interval wait), and every wait
\* that ends is followed by the repair sweep, and the repair sweep by the
\* eviction sweep.
C22_SweepsAtStartAndAfterEveryWait ==
    /\ sweeper.pc # "sleep"
    /\ [][/\ sweeper.pc = "sleep" => sweeper'.pc \in {"sleep", "monitor_loop"}
          /\ sweeper.pc = "monitor_loop" => sweeper'.pc \in {"monitor_loop", "cleanup"}]_vars

\* Task p went past the lookup without finding a session, created a record
\* and has made its start_container call.
ProvisionedAfterMiss(p) ==
    /\ proc[p].anchor = None
    /\ proc[p].created # None
    /\ Has(p, "start_container")

\* The containers the runtime holds under the name of agent a on image i.
ContainersOf(a, i) ==
    {c \in DOMAIN containers : containers[c].name = ContainerName(a, i)}

\* C23: two concurrent calls of one agent and image that both pass the lookup
\* before either provisions yield two containers of the agent in the runtime
\* at the same time, and two session records.
C23_RaceYieldsTwoContainers ==
    \A p, q \in Procs :
        ( /\ p # q
          /\ proc[p].llm_agent_id = proc[q].llm_agent_id
          /\ proc[p].base_image = proc[q].base_image
          /\ ProvisionedAfterMiss(p)
          /\ ProvisionedAfterMiss(q) )
        => /\ Cardinality(ContainersOf(proc[p].llm_agent_id, proc[p].base_image)) >= 2
           /\ Cardinality({r \in Rows(db) : r.llm_agent_id = proc[p].llm_agent_id}) >= 2

\* The runtime never holds two containers of one name.
OneContainerPerName ==
    \A c1, c2 \in DOMAIN containers :
        containers[c1].name = containers[c2].name => c1 = c2

\* The records the overlapping calls created: those that existed when the call
\* that runs alone was made.
RaceRows ==
    {r \in Rows(db) : proc[1].created = None \/ r.id < Val(proc[1].created)}

\* The call that runs alone after the overlapping calls has returned.
LoneCallReturned ==
    /\ calls = Cardinality(Procs) + 1
    /\ proc[1].pc = "done"

\* C24: after the overlapping calls of one agent and image have each created a
\* record, the next call of the agent, running alone, collapses to the newest
\* record: when it returns the newest record is active and a losing record of
\* the race has been deactivated.
C24_NextCallCollapses ==
    (LoneCallReturned /\ Cardinality(RaceRows) >= 2)
    => /\ Val(Anchor(db, "A", DefaultBaseImage)).is_active
       /\ \E r \in RaceRows : ~r.is_active

\* C25: the sweeps are safe to run concurrently with a call: while the call
\* holds its resolved session, the record is in the store and the container
\* runs, and the call does not fail (exit code 0, and no exception other than
\* that of a start_container the runtime refused).
C25_SweepsSafe ==
    \A p \in Procs :
        /\ proc[p].pc = "raised" => Has(p, "update_failed")
        /\ proc[p].pc \in {"exec", "post_probe", "finalize"}
              => get_sandbox(db, Ret(p).id) # None
        /\ proc[p].pc = "exec" => IsRunning(containers, proc[p].current_container_id)
        /\ proc[p].pc \in {"post_probe", "finalize", "done"}
              => Val(proc[p].result).exit_code = Some(0)

\* A deactivated record whose container still runs under the agent's name.
InactiveWithLiveContainer ==
    \E r \in Rows(db) :
        /\ ~r.is_active
        /\ IsRunning(containers, r.container_id)
        /\ containers[Val(r.container_id)].name = ContainerName(r.llm_agent_id, r.base_image)

\* The call of p has started a container for the record it created and has
\* written its id (service.py lines 138-156 are done).
StartRecorded(p) ==
    /\ proc[p].created # None
    /\ proc[p].pc \in {"exec", "post_probe", "finalize", "done"}

\* C26: a record has a container id exactly when start_container has
\* succeeded for it and the call has recorded it: a new record has none, an id
\* appears only in the step that records a successful start for that record,
\* it is there once that step is done, and an id once set is never cleared
\* or replaced.
C26_ContainerIdIffStarted ==
    [][ /\ db' # db =>
              /\ \A r \in Rows(db') :
                    (\A o \in Rows(db) : o.id # r.id) => r.container_id = None
              /\ \A r \in Rows(db), n \in Rows(db') :
                    n.id = r.id =>
                      /\ Truthy(r.container_id) => n.container_id = r.container_id
                      /\ (~Truthy(r.container_id) /\ Truthy(n.container_id)) =>
                            \E p \in Procs :
                                /\ proc[p].pc = "set_running"
                                /\ proc[p].created = Some(r.id)
                                /\ Has(p, "start_container")
                                /\ proc[p].current_container_id = n.container_id
        /\ \A p \in Procs :
              (~StartRecorded(p) /\ StartRecorded(p)') =>
                 /\ Truthy(proc'[p].current_container_id)
                 /\ \A n \in Rows(db') :
                       Some(n.id) = proc'[p].created
                          => n.container_id = proc'[p].current_container_id
      ]_vars

\* C26 witness: a call has started a container for its record, has executed
\* and has written the outcome, and the record still has that container's id.
C26_Witness ==
    \E p \in Procs :
        /\ proc[p].pc = "done"
        /\ proc[p].created # None
        /\ get_sandbox(db, Val(proc[p].created)) # None
        /\ Val(get_sandbox(db, Val(proc[p].created))).container_id = proc[p].executed_in
        /\ Truthy(proc[p].executed_in)

\* The columns update_sandbox_status is given a value for.
UpdatedColumns(old, a) ==
    [old EXCEPT
        !.status = a.status,
        !.container_id = IF a.container_id # None THEN a.container_id ELSE @,
        !.execution_result = IF a.execution_result # None THEN a.execution_result ELSE @,
        !.error_message = IF a.error_message # None THEN a.error_message ELSE @,
        !.exit_code = IF a.exit_code # None THEN a.exit_code ELSE @]

\* The step in which update_sandbox_status runs has the effect the claim
\* describes; stamped: whether last_updated_at of a row that changed is set
\* to the time of the update, or is left like every other column.
UpdateEffect(stamped) ==
    (proc[1].pc = "call" /\ proc[1].op = "update_sandbox_status" /\ proc'[1].pc = "returned") =>
        LET a == Val(proc[1].args)
            i == RowIndex(db, a.id)
        IN IF i = 0
           THEN db' = db /\ proc'[1].returned = Some(None)
           ELSE LET new == UpdatedColumns(db[i], a) IN
                /\ Len(db') = Len(db)
                /\ \A j \in 1..Len(db) : j # i => db'[j] = db[j]
                /\ db'[i] = IF stamped /\ new # db[i]
                            THEN [new EXCEPT !.last_updated_at = clock + 1]
                            ELSE new
                /\ proc'[1].returned = Some(Some(db'[i]))

\* C27 (as amended): update_sandbox_status on an existing id sets status,
\* applies container_id, execution_result and error_message only when
\* supplied non-empty and exit_code when supplied (0 included), stamps
\* last_updated_at when a column changed, and leaves every other column of
\* the row and every other row unchanged; on an unknown id it returns None and
\* changes nothing.
C27_UpdateFrameStamped == [][UpdateEffect(TRUE)]_vars

\* C27 (as stated): the same, with every column other than the five supplied
\* ones unchanged.
C27_UpdateFrame == [][UpdateEffect(FALSE)]_vars

\* C27 witness: an update of an existing row that has a container id, with no
\* container id supplied and exit code 0 supplied, has returned the row.
C27_Witness ==
    /\ proc[1].pc = "returned"
    /\ proc[1].op = "update_sandbox_status"
    /\ Val(proc[1].args).container_id = None
    /\ Val(proc[1].args).exit_code = Some(0)
    /\ Val(proc[1].args).error_message = None
    /\ Val(proc[1].returned) # None
    /\ Val(Val(proc[1].returned)).container_id # None
    /\ Val(Val(proc[1].returned)).exit_code = Some(0)
    /\ Val(Val(proc[1].returned)).error_message = Some("stderr")
    /\ Val(Val(proc[1].returned)).last_updated_at = clock
    /\ Len(db) = MaxStoreRows

\* The rows of a list, as a set.
Listed(l) == {l[i] : i \in 1..Len(l)}

\* The statuses get_active_sandboxes selects (crud.py line 71).
ActiveStatuses == {"pending", "running", "regenerating"}

\* C28: get_active_sandboxes returns exactly the rows that are active and
\* PENDING, RUNNING or REGENERATING, get_broken_sandboxes exactly the rows that
\* are active and FAILED, each row once; no row is in both lists.
C28_ListsExact ==
    /\ (proc[1].pc = "returned" /\ proc[1].op = "get_active_sandboxes") =>
          /\ Listed(Val(proc[1].returned))
                = {r \in Rows(db) : r.is_active /\ r.status \in ActiveStatuses}
          /\ Len(Val(proc[1].returned)) = Cardinality(Listed(Val(proc[1].returned)))
    /\ (proc[1].pc = "returned" /\ proc[1].op = "get_broken_sandboxes") =>
          /\ Listed(Val(proc[1].returned))
                = {r \in Rows(db) : r.is_active /\ r.status = "failed"}
          /\ Len(Val(proc[1].returned)) = Cardinality(Listed(Val(proc[1].returned)))
    /\ Listed(get_active_sandboxes(db)) \cap Listed(get_broken_sandboxes(db)) = {}

\* C28 witness: get_active_sandboxes has returned one row of a table that
\* also holds an active FAILED row.
C28_Witness ==
    /\ proc[1].pc = "returned"
    /\ proc[1].op = "get_active_sandboxes"
    /\ Len(Val(proc[1].returned)) = 1
    /\ \E r \in Rows(db) : r.is_active /\ r.status = "failed"

\* C28 witness: get_broken_sandboxes has returned the FAILED row of a table
\* that also holds a deactivated FAILED row.
C28_WitnessBroken ==
    /\ proc[1].pc = "returned"
    /\ proc[1].op = "get_broken_sandboxes"
    /\ Len(Val(proc[1].returned)) = 1
    /\ \E r \in Rows(db) : ~r.is_active /\ r.status = "failed"

\* C29: pull_image returns True when the image is pulled and False when the
\* image is not found, and raises when the runtime reports an API error.
C29_PullContract ==
    (proc[1].pc = "returned" /\ proc[1].op = "pull_image") =>
        LET outcome == Val(proc[1].args)
            r == Val(proc[1].returned)
        IN /\ outcome = "pulled" => (~r.raised /\ r.value = TRUE)
           /\ outcome = "not_found" => (~r.raised /\ r.value = FALSE)
           /\ outcome = "api_error" => r.raised

\* C30: the interpreter is python with .py when the image name contains
\* "python", otherwise node with .js when it contains "node", otherwise bash
\* with .sh; a name with both words gets python.
C30_InterpreterByName ==
    (proc[1].pc = "returned" /\ proc[1].op = "exec_code_in_container") =>
        LET base_image == Val(proc[1].args)
            r == Val(proc[1].returned)
            python == \E i \in DOMAIN base_image : base_image[i] = "python"
            node == \E i \in DOMAIN base_image : base_image[i] = "node"
        IN /\ python => r = [interpreter |-> "python", file_extension |-> ".py"]
           /\ (~python /\ node) => r = [interpreter |-> "node", file_extension |-> ".js"]
           /\ (~python /\ ~node) => r = [interpreter |-> "bash", file_extension |-> ".sh"]

\* C30 witness: the choice has been made for a name that has "node" before
\* "python".
C30_Witness ==
    /\ proc[1].pc = "returned"
    /\ proc[1].op = "exec_code_in_container"
    /\ Val(proc[1].args) = <<"node", "python">>
    /\ Val(proc[1].returned).interpreter = "python"

\* C31: for every code string the script file that exec_code_in_container
\* writes holds exactly the code string.
C31_WriteRoundTrip ==
    (proc[1].pc = "returned" /\ proc[1].op = "write_script"
        /\ Val(proc[1].returned).kind # "unmodelled") =>
        /\ Val(proc[1].returned).kind = "written"
        /\ Val(proc[1].returned).content = Val(proc[1].args)

\* The call of p has run the code: exec_code_in_container has returned.
Executed(p) == Has(p, "exec_code_in_container") /\ proc[p].result # None

\* C32: in every call the execution is preceded by a verify probe that
\* reported the anchor's container running or by a start_container that
\* returned the container, in both cases the container the code runs in; it
\* is followed at once by a second probe of that container, and the status
\* written last is computed from that probe and the execution outcome.
C32_ExecBetweenProbes ==
    \A p \in Procs :
        /\ Executed(p) =>
              /\ proc[p].executed_in = proc[p].current_container_id
              /\ Truthy(proc[p].executed_in)
              /\ \/ /\ proc[p].created = None
                    /\ HadContainer(p)
                    /\ proc[p].ops[2] = "get_container_status"
                    /\ proc[p].docker_container_status = Some("running")
                    /\ AnchorOf(p).container_id = proc[p].executed_in
                 \/ /\ proc[p].created # None
                    /\ Has(p, "start_container")
                    /\ ~Has(p, "update_failed")
              /\ proc[p].pc \in {"post_probe", "finalize", "done"}
        /\ (Executed(p) /\ proc[p].pc \in {"finalize", "done"}) =>
              \E i \in DOMAIN proc[p].ops :
                  /\ proc[p].ops[i] = "exec_code_in_container"
                  /\ i + 1 \in DOMAIN proc[p].ops
                  /\ proc[p].ops[i + 1] = "get_container_status"
        /\ Has(p, "update_final") =>
              /\ Executed(p)
              /\ proc[p].pc = "done"
              /\ SubSeq(proc[p].ops, Len(proc[p].ops) - 2, Len(proc[p].ops))
                    = <<"exec_code_in_container", "get_container_status", "update_final">>
              /\ Ret(p).status
                    = db_status_after_exec(proc[p].post_exec_container_status, Outcome(p))
              /\ proc[p].post_exec_container_status # Some("running")
                    => Ret(p).status = "failed"

\* C32 witness: a call reused a container verified as running whose record
\* said RUNNING, the code ended well, the second probe found the container no
\* longer running, and the record returned is FAILED.
C32_Witness ==
    \E p \in Procs :
        /\ Returned(p)
        /\ proc[p].created = None
        /\ proc[p].docker_container_status = Some("running")
        /\ AnchorOf(p).status = "running"
        /\ Outcome(p).exit_code = Some(0)
        /\ Outcome(p).error = None
        /\ proc[p].post_exec_container_status # Some("running")
        /\ Ret(p).status = "failed"

C34_ProbeErrorDeactivates ==
    \A p \in Procs :
        (Probed(p) /\ proc[p].docker_container_status = None) =>
            /\ proc[p].pc \notin {"reuse", "restart"}
            /\ proc[p].pc # "deactivate" =>
                  /\ Has(p, "deactivate_sandbox")
                  /\ \A r \in Rows(db) : r.id = AnchorOf(p).id => ~r.is_active
            /\ proc[p].pc \notin {"deactivate", "remove_stale", "find"} =>
                  Has(p, "find_container_by_name")
            /\ Executed(p) =>
                  /\ proc[p].created # None
                  /\ proc[p].executed_in # AnchorOf(p).container_id

\* C34 witness: the anchor's container runs, the probe was answered None all
\* the same, the anchor is deactivated and the call is at the first step of
\* provisioning.
C34_Witness ==
    \E p \in Procs :
        /\ Probed(p)
        /\ proc[p].docker_container_status = None
        /\ proc[p].pc = "find"
        /\ IsRunning(containers, AnchorOf(p).container_id)
        /\ \E r \in Rows(db) : r.id = AnchorOf(p).id /\ ~r.is_active

\* The call of p has executed in the container its verify probe found
\* running, and exec_code_in_container found the container gone.
VanishedBeforeExec(p) ==
    /\ Executed(p)
    /\ proc[p].created = None
    /\ proc[p].docker_container_status = Some("running")
    /\ Outcome(p).error = Some("not found")

C36_OlderRecordsSuperseded ==
    \A p \in Procs :
        (Returned(p) /\ proc[p].created # None) =>
            \A r \in Rows(db) :
                (/\ r.llm_agent_id = proc[p].llm_agent_id
                 /\ r.base_image = proc[p].base_image
                 /\ Some(r.id) # proc[p].created) => ~r.is_active

\* The row of id i is a dead session: active, FAILED, its container not running.
DeadSession(i) ==
    \E r \in Rows(db) :
        /\ r.id = i
        /\ r.is_active
        /\ r.status = "failed"
        /\ ~IsRunning(containers, r.container_id)
RowDeactivated(i) == \E r \in Rows(db) : r.id = i /\ ~r.is_active
RowGone(i) == \A r \in Rows(db) : r.id # i

\* C37: with no further request and the periodic task running for ever, every
\* dead session (active, FAILED, container not running) is eventually
\* deactivated and in the end deleted from the table.
C37_DeadSessionsCollected ==
    \A i \in 1..MaxSweepRows :
        /\ DeadSession(i) ~> (RowDeactivated(i) \/ RowGone(i))
        /\ DeadSession(i) ~> RowGone(i)

\* pco/tools.py line 122: the caller's test on the record a call returned.
tool_reports_success(sandbox_entry) == sandbox_entry.status = "success"

\* C38: every record, in the table or returned by a call, has status PENDING,
\* RUNNING or FAILED; SUCCESS, STOPPED and REGENERATING are never written, and
\* the caller's test for SUCCESS on a returned record is never true.
C38_ThreeStatusesOnly ==
    /\ \A r \in Rows(db) : r.status \in {"pending", "running", "failed"}
    /\ \A p \in Procs :
          /\ proc[p].sandbox_entry # None =>
                Ret(p).status \in {"pending", "running", "failed"}
          /\ Returned(p) => ~tool_reports_success(Ret(p))

\* C38 witness: a call has returned after code that exited 0 with output and
\* no error in a container still running; its record is RUNNING and the
\* caller's test fails.
C38_Witness ==
    \E p \in Procs :
        /\ Returned(p)
        /\ Outcome(p) = CleanExit
        /\ proc[p].post_exec_container_status = Some("running")
        /\ Ret(p).status = "running"
        /\ ~tool_reports_success(Ret(p))
        /\ \E r \in Rows(db) : r.id = Ret(p).id /\ r.status = "running"

\* The call of p is between its verify or provision step and its finalize
\* step, working with container c.
InUse(p, c) ==
    /\ proc[p].pc \in {"reuse", "set_running", "exec", "post_probe", "finalize"}
    /\ proc[p].current_container_id = Some(c)

\* C39: while a call is between its verify or provision step and its
\* finalize step for a container, no step of another call of the same agent
\* stops or removes that container.
C39_NoRemovalWhileInUse ==
    [][ \A p \in Procs, q \in Procs :
          \A c \in DOMAIN containers :
              (/\ p # q
               /\ InUse(p, c)
               /\ proc[q].llm_agent_id = proc[p].llm_agent_id
               /\ proc[q].pc \in {"remove_stale", "remove_conflict"}
               /\ proc'[q] # proc[q])
                  => (c \in DOMAIN containers' /\ containers'[c] = containers[c])
      ]_vars

\* The rows of the agents other than a, and the containers that do not have
\* the name of a.
OtherRows(d, a) == {r \in Rows(d) : r.llm_agent_id # a}
OtherContainers(cs, a) ==
    {<<c, cs[c]>> : c \in {x \in DOMAIN cs : cs[x].name # ContainerName(a, DefaultBaseImage)}}

\* C40: a step of a call of an agent creates, updates, deactivates or deletes
\* no record of another agent and starts, stops or removes no container that
\* has another name than the agent's, however the calls interleave.
C40_OtherAgentsUntouched ==
    [][ \A p \in Procs :
          (proc'[p] # proc[p] /\ ~Idle(p)) =>
              /\ OtherRows(db', proc[p].llm_agent_id) = OtherRows(db, proc[p].llm_agent_id)
              /\ OtherContainers(containers', proc[p].llm_agent_id)
                    = OtherContainers(containers, proc[p].llm_agent_id)
      ]_vars

\* C40 witness: a call of agent "A" has deactivated its anchor and started a
\* new container while a call of agent "B" is about to execute in its own
\* container, which runs, and the record of "B" is active.
C40_Witness ==
    \E p \in Procs, q \in Procs :
        /\ proc[p].llm_agent_id = "A"
        /\ proc[p].pc = "exec"
        /\ Has(p, "deactivate_sandbox")
        /\ proc[q].llm_agent_id = "B"
        /\ proc[q].pc = "exec"
        /\ IsRunning(containers, proc[q].current_container_id)
        /\ \E r \in Rows(db) : r.llm_agent_id = "B" /\ r.is_active

====
